---- MODULE Spec2Model ----
(***************************************************************************)
(* Chain state engine of the Stegos node (blockchain/src/blockchain.rs):  *)
(* block registration, the UTXO index, the monetary accumulators, the     *)
(* escrow and the persisted block list.                                   *)
(***************************************************************************)
EXTENDS Integers, Sequences, FiniteSets, TLC

\* ------------------------------------------------------------------------
\* Bounds of the model.
\* ------------------------------------------------------------------------
\* Longest chain that is explored.
MaxBlocks == 4
\* Longest input list of a monetary block.
MaxInputs == 2
\* Largest number of outputs of a monetary block.
MaxOutputs == 2
\* Largest number of inputs and outputs of a monetary block together.
MaxBlockSize == 2
\* Largest timestamp (block timestamps and current_timestamp arguments).
MaxTime == 1
\* Largest count argument of blocks_range.
MaxCount == 2
\* Longest input list and longest output list of a transaction, and the
\* largest number of inputs and outputs of a transaction together.
MaxTxInputs == 2
MaxTxOutputs == 2
MaxTxSize == 3
\* Largest number of transactions in the mempool.
MaxMempool == 2
\* Largest epoch of the node's chain.
MaxEpoch == 1
MaxEvents == 2
MaxHandled == 4
MaxAmount == 2
\* The unsealed account: the epochs persisted, the epochs and the micro
\* blocks notified, the notifications not handled yet, the time.
MaxPersisted == 1
MaxMacro == 1
MaxOffset == 2
MaxQueue == 2
MaxClock == 2
\* The transaction builders: the largest amount asked for and the largest fee.
MaxBuildAmount == 3
MaxFee == 1
\* cloak_all: the largest fee and the largest max_inputs_in_tx.
MaxCloakFee == 5
MaxCloakInputs == 2
\* The console: the lines typed.
MaxLines == 3

\* ------------------------------------------------------------------------
\* Scalars.  i64 is scaled down to I64Bits bits, Fr to the integers modulo
\* FrOrder (FrOrder > 2^I64Bits, as the field order exceeds 2^64), and ECp
\* to pairs <<a, g>>: the coefficients of the two Pedersen generators.
\* ------------------------------------------------------------------------
I64Bits == 3
FrOrder == 11
I64Min == -(2 ^ (I64Bits - 1))
I64Max == (2 ^ (I64Bits - 1)) - 1
I64 == I64Min .. I64Max
Fr == 0 .. (FrOrder - 1)

\* Two's complement wrap-around of an i64 sum (release builds).
WrapI64(n) == ((n - I64Min) % (2 ^ I64Bits)) + I64Min

\* Fr::from(i64): negative numbers map to the additive inverse.
FrFrom(n) == n % FrOrder
FrAdd(x, y) == (x + y) % FrOrder
FrSub(x, y) == (x - y) % FrOrder

\* ECp::inf()
ECpInf == <<0, 0>>
ECpAdd(p, r) == <<(p[1] + r[1]) % FrOrder, (p[2] + r[2]) % FrOrder>>
ECpSub(p, r) == <<(p[1] - r[1]) % FrOrder, (p[2] - r[2]) % FrOrder>>
\* fee_a(n): the commitment to the clear amount n with zero blinding.
fee_a(n) == <<FrFrom(n), 0>>
\* gamma * G
MulG(x) == <<0, x % FrOrder>>
\* Pedersen commitment to a hidden amount with a blinding factor.
Commit(amount, gam) == <<FrFrom(amount), gam % FrOrder>>

\* ------------------------------------------------------------------------
\* Outputs.
\* ------------------------------------------------------------------------
Validators == {"V1", "V2"}
ValidatorCode(v) == IF v = "V1" THEN 1 ELSE IF v = "V2" THEN 2 ELSE 0

PaymentOutput(amount, gam) ==
    [type |-> "PaymentOutput", validator |-> "", amount |-> amount, gam |-> gam]
StakeOutput(validator, amount) ==
    [type |-> "StakeOutput", validator |-> validator, amount |-> amount, gam |-> 0]

\* The outputs that blocks of the model may carry.
OutputUniverse == {PaymentOutput(1, 1), StakeOutput("V1", 2), StakeOutput("V2", 1)}

\* Hash::digest(output): a collision-free digest of the output's fields.
HashOutput(o) ==
    IF o.type = "PaymentOutput"
    THEN 100 + (10 * o.amount) + o.gam
    ELSE 200 + (10 * ValidatorCode(o.validator)) + o.amount

\* The value commitment used by the balance checks: vcmt for a payment
\* output, fee_a(amount) for a stake output.
OutputCommitment(o) ==
    IF o.type = "PaymentOutput" THEN Commit(o.amount, o.gam) ELSE fee_a(o.amount)

\* ------------------------------------------------------------------------
\* Merkle tree of outputs: a sequence of leaves addressed by their position
\* (the Merkle path).  A pruned leaf keeps only the hash of the output.
\* ------------------------------------------------------------------------
Leaf(o) == [pruned |-> FALSE, output |-> o, hash |-> HashOutput(o)]
PrunedLeaf(l) == [pruned |-> TRUE, output |-> PaymentOutput(0, 0), hash |-> l.hash]
MerkleFromArray(outs) == [i \in 1 .. Len(outs) |-> Leaf(outs[i])]
\* Merkle::lookup: TRUE iff the path resolves to a leaf that is still there.
LookupSome(tree, path) == path \in 1 .. Len(tree) /\ ~tree[path].pruned
\* Merkle::prune
Prune(tree, path) == [tree EXCEPT ![path] = PrunedLeaf(tree[path])]
\* The root hash: the leaf hashes in order, unchanged by pruning.
MerkleRoot(tree) == [i \in 1 .. Len(tree) |-> tree[i].hash]

\* ------------------------------------------------------------------------
\* Blocks.
\* ------------------------------------------------------------------------
\* Hash::digest(&"dev".to_string()), the previous hash of the genesis block.
GenesisPrevious == <<>>

\* MonetaryBlock::new
MonetaryBlock(previous, epoch, timestamp, gam, adjustment, input_hashes, outs) ==
    [type |-> "MonetaryBlock", previous |-> previous, epoch |-> epoch,
     timestamp |-> timestamp, gamma |-> gam, monetary_adjustment |-> adjustment,
     inputs_range_hash |-> input_hashes,
     outputs_range_hash |-> MerkleRoot(MerkleFromArray(outs)),
     inputs |-> input_hashes, outputs |-> MerkleFromArray(outs),
     leader |-> "", facilitator |-> "", validators |-> {}]

\* KeyBlock::new
KeyBlock(previous, epoch, timestamp, leader, facilitator, validators) ==
    [type |-> "KeyBlock", previous |-> previous, epoch |-> epoch,
     timestamp |-> timestamp, gamma |-> 0, monetary_adjustment |-> 0,
     inputs_range_hash |-> <<>>, outputs_range_hash |-> <<>>,
     inputs |-> <<>>, outputs |-> <<>>,
     leader |-> leader, facilitator |-> facilitator, validators |-> validators]

\* Hash::digest(block): a collision-free digest of the header, which holds
\* the range hashes of the body and so does not change when the body is
\* pruned.
HashBlock(b) ==
    <<IF b.type = "KeyBlock" THEN 1 ELSE 2, b.previous, b.epoch, b.timestamp,
      b.gamma, b.monetary_adjustment, b.inputs_range_hash, b.outputs_range_hash,
      b.leader, b.facilitator, b.validators>>

\* ------------------------------------------------------------------------
\* Escrow: (validator, output hash) -> stake record.
\* ------------------------------------------------------------------------
BONDING_TIME == 1

\* Escrow::stake: inserts the record, no change if the key is present.
Stake(esc, validator, output_hash, bonding_timestamp, amount) ==
    IF <<validator, output_hash>> \in DOMAIN esc
    THEN esc
    ELSE [k \in DOMAIN esc \cup {<<validator, output_hash>>} |->
            IF k = <<validator, output_hash>>
            THEN [amount |-> amount, bonding_timestamp |-> bonding_timestamp]
            ELSE esc[k]]

\* Escrow::unstake: removes the record; fails, and removes nothing, while
\* the stake is bonded.
UnstakeFails(esc, validator, output_hash, now) ==
    /\ <<validator, output_hash>> \in DOMAIN esc
    /\ esc[<<validator, output_hash>>].bonding_timestamp > now
Unstake(esc, validator, output_hash, now) ==
    IF UnstakeFails(esc, validator, output_hash, now)
    THEN esc
    ELSE [k \in DOMAIN esc \ {<<validator, output_hash>>} |-> esc[k]]

RECURSIVE SumAmounts(_, _)
SumAmounts(esc, keys) ==
    IF keys = {} THEN 0
    ELSE LET k == CHOOSE x \in keys : TRUE
         IN esc[k].amount + SumAmounts(esc, keys \ {k})

\* The sum of the stakes of one validator.
EscrowBalance(esc, validator) ==
    SumAmounts(esc, {k \in DOMAIN esc : k[1] = validator})

\* Escrow::multiget
Multiget(esc, vals) == [v \in vals |-> EscrowBalance(esc, v)]

\* ------------------------------------------------------------------------
\* The Blockchain object.
\* ------------------------------------------------------------------------
VARIABLES
    database,            \* ListDb: block id -> block as it was received
    blocks,              \* Vec<Block>, blocks[id + 1] is the block with id
    block_by_hash,       \* HashMap<Hash, BlockId>
    output_by_hash,      \* HashMap<Hash, OutputKey>
    escrow,
    leader,
    facilitator,
    validators,          \* BTreeMap<secure::PublicKey, i64>
    epoch,
    last_epoch_change,
    created,
    burned,
    gamma,
    monetary_adjustment,
    call,                \* the last call and its arguments
    result,              \* what the last call returned
    returned,            \* the value returned by the last successful call
    snapshot,            \* the chain before the block that was applied last
    panicked             \* the process has been terminated by a panic

chainVars == <<blocks, block_by_hash, output_by_hash, escrow, leader, facilitator,
               validators, epoch, last_epoch_change, created, burned, gamma,
               monetary_adjustment>>
vars == <<database, chainVars, call, result, returned, snapshot, panicked>>

\* The fields of the Blockchain object as one record.
Chain ==
    [database |-> database, blocks |-> blocks, block_by_hash |-> block_by_hash,
     output_by_hash |-> output_by_hash, escrow |-> escrow, leader |-> leader,
     facilitator |-> facilitator, validators |-> validators, epoch |-> epoch,
     last_epoch_change |-> last_epoch_change, created |-> created,
     burned |-> burned, gamma |-> gamma,
     monetary_adjustment |-> monetary_adjustment]

EmptyMap == [k \in {} |-> 0]
MapPut(m, key, value) == [k \in DOMAIN m \cup {key} |-> IF k = key THEN value ELSE m[k]]
MapRemove(m, key) == [k \in DOMAIN m \ {key} |-> m[k]]

\* Blockchain::with_db on an empty database.
NewChain ==
    [database |-> EmptyMap, blocks |-> <<>>, block_by_hash |-> EmptyMap,
     output_by_hash |-> EmptyMap, escrow |-> EmptyMap, leader |-> "G2",
     facilitator |-> "G2", validators |-> EmptyMap, epoch |-> 0,
     last_epoch_change |-> 0, created |-> ECpInf, burned |-> ECpInf,
     gamma |-> 0, monetary_adjustment |-> 0]

\* ListDb::insert
DbInsert(db, id, block) == MapPut(db, id, block)

Ok == [kind |-> "Ok", args |-> <<>>]
Err(kind, args) == [kind |-> kind, args |-> args]
Panic(message) == [kind |-> "Panic", args |-> <<message>>]
ValidationErrors ==
    {"PreviousHashMismatch", "BlockHashCollision", "MissingUTXO",
     "OutputHashCollision", "InvalidBlockBalance"}

\* Blockchain::output_by_hash: does the hash resolve to an output?
OutputResolves(c, h) ==
    /\ h \in DOMAIN c.output_by_hash
    /\ LET key == c.output_by_hash[h]
       IN /\ key.block_id < Len(c.blocks)
          /\ c.blocks[key.block_id + 1].type = "MonetaryBlock"
          /\ LookupSome(c.blocks[key.block_id + 1].outputs, key.path)

\* Blockchain::output_by_hash: the output, for a hash that resolves.
OutputByHash(c, h) ==
    LET key == c.output_by_hash[h]
    IN c.blocks[key.block_id + 1].outputs[key.path].output

Min(S) == CHOOSE x \in S : \A y \in S : x <= y

RECURSIVE SumCommitments(_)
SumCommitments(outs) ==
    IF outs = <<>> THEN ECpInf
    ELSE ECpAdd(OutputCommitment(Head(outs)), SumCommitments(Tail(outs)))

\* The global balance check left out: every sum of accumulators passes.
GlobalBalance_Unchecked(adjustment, burn, creat, gam) == TRUE

\* The global balance equation over the four accumulators.
GlobalBalance(adjustment, burn, creat, gam) ==
    ECpSub(ECpAdd(fee_a(adjustment), burn), creat) = MulG(gam)

\* A spent output pruned from its block but left in the set of unspent
\* outputs.
RemoveOutput_KeepsEntry(c, h) ==
    LET key == c.output_by_hash[h]
    IN [c EXCEPT !.blocks[key.block_id + 1].outputs = Prune(@, key.path)]

\* One spent output is removed from the set of unspent outputs and from
\* the block that holds it.
RemoveOutput(c, h) ==
    LET key == c.output_by_hash[h]
    IN [c EXCEPT !.output_by_hash = MapRemove(@, h),
                 !.blocks[key.block_id + 1].outputs = Prune(@, key.path)]

\* "Remove spent outputs": the loop over block.body.inputs, from input i on.
\* It stops at an input that is no longer in the index (unreachable!()).
RECURSIVE RemoveSpent(_, _, _, _)
RemoveSpent(c, inputs, i, pruned) ==
    IF i > Len(inputs) THEN [chain |-> c, pruned |-> pruned, ok |-> TRUE]
    ELSE LET h == inputs[i]
         IN IF h \notin DOMAIN c.output_by_hash
            THEN [chain |-> c, pruned |-> pruned, ok |-> FALSE]
            ELSE LET key == c.output_by_hash[h]
                     blk == c.blocks[key.block_id + 1]
                 IN IF blk.type # "MonetaryBlock" \/ ~LookupSome(blk.outputs, key.path)
                    THEN [chain |-> [c EXCEPT !.output_by_hash = MapRemove(@, h)],
                          pruned |-> pruned, ok |-> FALSE]
                    ELSE RemoveSpent(RemoveOutput(c, h), inputs, i + 1,
                                     Append(pruned, blk.outputs[key.path].output))

\* A new output that is not entered in the set of unspent outputs.
InsertOutput_Skipped(c, h, block_id, path) == c

\* A new output entered with the Merkle path of its right-hand neighbour.
InsertOutput_NextPath(c, h, block_id, path) ==
    [c EXCEPT !.output_by_hash =
                  MapPut(@, h, [block_id |-> block_id, path |-> path + 1])]

\* One new unspent output is created: output_by_hash.insert(hash, output_key).
InsertOutput(c, h, block_id, path) ==
    [c EXCEPT !.output_by_hash = MapPut(@, h, [block_id |-> block_id, path |-> path])]

\* "Register created unspent outputs": the loop over outputs_pathes, from
\* entry i on.  It stops after an insert that replaced an entry.
RECURSIVE RegisterOutputs(_, _, _, _)
RegisterOutputs(c, block_id, pathes, i) ==
    IF i > Len(pathes) THEN [chain |-> c, ok |-> TRUE]
    ELSE LET h  == pathes[i][1]
             c1 == InsertOutput(c, h, block_id, pathes[i][2])
         IN IF h \in DOMAIN c.output_by_hash
            THEN [chain |-> c1, ok |-> FALSE]
            ELSE RegisterOutputs(c1, block_id, pathes, i + 1)

\* "remove pruned outputs": escrow.unstake for every pruned stake output.
RECURSIVE UnstakePruned(_, _, _)
UnstakePruned(esc, pruned, now) ==
    IF pruned = <<>> THEN esc
    ELSE LET o == Head(pruned)
         IN UnstakePruned(
              IF o.type = "StakeOutput"
              THEN Unstake(esc, o.validator, HashOutput(o), now)
              ELSE esc,
              Tail(pruned), now)

\* "register new outputs": escrow.stake for every new stake output.
RECURSIVE StakeOutputs(_, _, _)
StakeOutputs(esc, outs, block_timestamp) ==
    IF outs = <<>> THEN esc
    ELSE LET o == Head(outs)
         IN StakeOutputs(
              IF o.type = "StakeOutput"
              THEN Stake(esc, o.validator, HashOutput(o),
                         block_timestamp + BONDING_TIME, o.amount)
              ELSE esc,
              Tail(outs), block_timestamp)

\* The live leaves of a tree as a sequence of <<hash, path>>, in path order.
RECURSIVE LeafsFrom(_, _)
LeafsFrom(tree, p) ==
    IF p > Len(tree) THEN <<>>
    ELSE IF tree[p].pruned THEN LeafsFrom(tree, p + 1)
    ELSE <<<<tree[p].hash, p>>>> \o LeafsFrom(tree, p + 1)

\* The previous hash left unchecked.
PreviousHashMismatch_Unchecked(c, block) == FALSE

\* "Check previous hash."
PreviousHashMismatch(c, block) ==
    /\ Len(c.blocks) > 0
    /\ HashBlock(c.blocks[Len(c.blocks)]) # block.previous

\* "Check all inputs": the positions of the inputs that do not resolve.
UnresolvedInputs(c, block) ==
    {i \in 1 .. Len(block.inputs) : ~OutputResolves(c, block.inputs[i])}

\* The uniqueness of the output hashes left unchecked.
CollidingOutputs_Unchecked(c, outputs_pathes) == {}

\* "Check that hash is unique": the positions in outputs_pathes of the
\* outputs whose hash is in the index.
CollidingOutputs(c, outputs_pathes) ==
    {i \in 1 .. Len(outputs_pathes) : outputs_pathes[i][1] \in DOMAIN c.output_by_hash}

\* Blockchain::register_monetary_block.  overflow_checks tells whether the
\* build panics on integer overflow (debug) or wraps around (release).
register_monetary_block_in(c, block, current_timestamp, overflow_checks) ==
    LET block_id == Len(c.blocks)
        c0 == [c EXCEPT !.database = DbInsert(@, block_id, block)]
        return(ch, r, pr, outs) ==
            [chain |-> ch, result |-> r, pruned |-> pr, outputs |-> outs,
             pruned_outputs |-> <<>>, recovered_inputs |-> <<>>]
        fail(r) == return(c0, r, <<>>, <<>>)
        previous_hash == HashBlock(c.blocks[Len(c.blocks)])
        this_hash == HashBlock(block)
        \* Check all inputs.
        bad_inputs == UnresolvedInputs(c, block)
        inputs == [i \in 1 .. Len(block.inputs) |-> OutputByHash(c, block.inputs[i])]
        block_burned == SumCommitments(inputs)
        \* Check all outputs.
        outputs_pathes == LeafsFrom(block.outputs, 1)
        outputs == [i \in 1 .. Len(outputs_pathes) |->
                       block.outputs[outputs_pathes[i][2]].output]
        collisions == CollidingOutputs(c, outputs_pathes)
        block_created == SumCommitments(outputs)
        \* The global monetary balance.
        new_created == ECpAdd(c.created, block_created)
        new_burned == ECpAdd(c.burned, block_burned)
        new_gamma == FrAdd(c.gamma, block.gamma)
        adjustment_sum == c.monetary_adjustment + block.monetary_adjustment
        new_adjustment == WrapI64(adjustment_sum)
        \* The transaction.
        removed == RemoveSpent(c0, block.inputs, 1, <<>>)
        registered == RegisterOutputs(removed.chain, block_id, outputs_pathes, 1)
        c3 == [registered.chain EXCEPT !.block_by_hash = MapPut(@, this_hash, block_id)]
        new_escrow == StakeOutputs(
                        UnstakePruned(c3.escrow, removed.pruned, current_timestamp),
                        outputs, block.timestamp)
        c4 == [c3 EXCEPT !.escrow = new_escrow,
                         !.created = new_created,
                         !.burned = new_burned,
                         !.gamma = new_gamma,
                         !.monetary_adjustment = new_adjustment,
                         !.blocks = Append(@, [block EXCEPT !.inputs = <<>>])]
    IN  IF PreviousHashMismatch(c, block)
        THEN fail(Err("PreviousHashMismatch", <<previous_hash, block.previous>>))
        ELSE IF this_hash \in DOMAIN c.block_by_hash
        THEN fail(Err("BlockHashCollision", <<this_hash>>))
        ELSE IF bad_inputs # {} /\ block.inputs[Min(bad_inputs)] \notin DOMAIN c.output_by_hash
        THEN fail(Err("MissingUTXO", <<block.inputs[Min(bad_inputs)]>>))
        ELSE IF bad_inputs # {}
        THEN fail(Panic("unreachable"))
        ELSE IF collisions # {}
        THEN fail(Err("OutputHashCollision", <<outputs_pathes[Min(collisions)][1]>>))
        ELSE IF ECpSub(ECpAdd(fee_a(block.monetary_adjustment), block_burned),
                       block_created) # MulG(block.gamma)
        THEN fail(Err("InvalidBlockBalance", <<>>))
        ELSE IF adjustment_sum \notin I64 /\ overflow_checks
        THEN fail(Panic("attempt to add with overflow"))
        ELSE IF ~GlobalBalance(new_adjustment, new_burned, new_created, new_gamma)
        THEN fail(Panic("Invalid global monetary balance"))
        ELSE IF ~removed.ok
        THEN return(removed.chain, Panic("unreachable"), <<>>, <<>>)
        ELSE IF ~registered.ok
        THEN return(registered.chain, Panic("unreachable"), <<>>, <<>>)
        ELSE return(c4, Ok, removed.pruned, outputs)

\* Does the sum of the monetary adjustments leave the range of i64?
AdjustmentOverflows(c, block) ==
    c.monetary_adjustment + block.monetary_adjustment \notin I64

\* Blockchain::register_monetary_block: the outcomes that the builds of the
\* program can produce.
register_monetary_block(c, block, current_timestamp) ==
    {register_monetary_block_in(c, block, current_timestamp, overflow_checks) :
        overflow_checks \in IF AdjustmentOverflows(c, block) THEN BOOLEAN ELSE {TRUE}}

\* Blockchain::register_key_block
register_key_block(c, block) ==
    LET block_id == Len(c.blocks)
        c0 == [c EXCEPT !.database = DbInsert(@, block_id, block)]
        return(ch, r) == [chain |-> ch, result |-> r, pruned |-> <<>>, outputs |-> <<>>,
                          pruned_outputs |-> <<>>, recovered_inputs |-> <<>>]
        previous_hash == HashBlock(c.blocks[Len(c.blocks)])
        this_hash == HashBlock(block)
        c1 == [c0 EXCEPT !.block_by_hash = MapPut(@, this_hash, block_id)]
        c2 == [c1 EXCEPT !.epoch = @ + 1,
                         !.last_epoch_change = Len(c.blocks),
                         !.leader = block.leader,
                         !.facilitator = block.facilitator,
                         !.validators = Multiget(c.escrow, block.validators),
                         !.blocks = Append(@, block)]
    IN  IF PreviousHashMismatch(c, block)
        THEN return(c0, Err("PreviousHashMismatch", <<previous_hash, block.previous>>))
        ELSE IF this_hash \in DOMAIN c.block_by_hash
        THEN return(c0, Err("BlockHashCollision", <<this_hash>>))
        ELSE IF c.epoch + 1 # block.epoch
        THEN return(c1, Panic("assertion failed: self.epoch + 1 == epoch"))
        ELSE return(c2, Ok)

\* The pruned leaves with hash h in the blocks, as <<block id, path>>.
PrunedLeaves(c, h) ==
    {jp \in (0 .. (Len(c.blocks) - 1)) \X (1 .. MaxOutputs + 1) :
        /\ jp[2] <= Len(c.blocks[jp[1] + 1].outputs)
        /\ c.blocks[jp[1] + 1].outputs[jp[2]].pruned
        /\ c.blocks[jp[1] + 1].outputs[jp[2]].hash = h}

\* revert_micro, "for each input consumed by the reverted block": the leaf
\* that the block pruned is put back from the persisted block, the hash is
\* put back into the index and a consumed stake is put back in the escrow.
RECURSIVE RestoreInputs(_, _, _, _)
RestoreInputs(c, inputs, i, recovered) ==
    IF i > Len(inputs) THEN [chain |-> c, recovered |-> recovered]
    ELSE LET h == inputs[i]
             found == PrunedLeaves(c, h)
         IN IF found = {}
            THEN RestoreInputs(c, inputs, i + 1, recovered)
            ELSE LET jp == CHOOSE x \in found : \A y \in found : y[1] <= x[1]
                     saved == c.database[jp[1]]
                     o == saved.outputs[jp[2]].output
                     c1 == [c EXCEPT
                              !.blocks[jp[1] + 1].outputs[jp[2]] = Leaf(o),
                              !.output_by_hash =
                                  MapPut(@, h, [block_id |-> jp[1], path |-> jp[2]]),
                              !.escrow =
                                  IF o.type = "StakeOutput"
                                  THEN Stake(@, o.validator, h,
                                             saved.timestamp + BONDING_TIME, o.amount)
                                  ELSE @]
                 IN RestoreInputs(c1, inputs, i + 1, Append(recovered, o))

\* revert_micro, "for each output produced by the reverted block": the hash
\* leaves the index and the stake of a stake output leaves the escrow.
RECURSIVE RemoveOutputs(_, _)
RemoveOutputs(c, outs) ==
    IF outs = <<>> THEN c
    ELSE LET o == Head(outs)
         IN RemoveOutputs(
              [c EXCEPT !.output_by_hash = MapRemove(@, HashOutput(o)),
                        !.escrow = IF o.type = "StakeOutput"
                                   THEN MapRemove(@, <<o.validator, HashOutput(o)>>)
                                   ELSE @],
              Tail(outs))

\* revert_micro
revert_micro(c) ==
    LET return(ch, r, po, ri) ==
            [chain |-> ch, result |-> r, pruned |-> <<>>, outputs |-> <<>>,
             pruned_outputs |-> po, recovered_inputs |-> ri]
        block_id == Len(c.blocks) - 1
        block == c.blocks[Len(c.blocks)]
        saved == c.database[block_id]
        leafs == LeafsFrom(block.outputs, 1)
        outputs == [i \in 1 .. Len(leafs) |-> block.outputs[leafs[i][2]].output]
        c1 == [c EXCEPT !.blocks = SubSeq(@, 1, Len(@) - 1),
                        !.block_by_hash = MapRemove(@, HashBlock(block))]
        c2 == RemoveOutputs(c1, outputs)
        restored == RestoreInputs(c2, saved.inputs, 1, <<>>)
        c3 == [restored.chain EXCEPT
                 !.created = ECpSub(@, SumCommitments(outputs)),
                 !.burned = ECpSub(@, SumCommitments(restored.recovered)),
                 !.gamma = FrSub(@, block.gamma),
                 !.monetary_adjustment = @ - block.monetary_adjustment]
    IN  IF c.blocks = <<>> \/ block.type # "MonetaryBlock"
        THEN return(c, Err("NoMicroBlock", <<>>), <<>>, <<>>)
        ELSE return(c3, Ok, [i \in 1 .. Len(leafs) |-> leafs[i][1]], restored.recovered)

\* ListDb::iter_starting: the persisted blocks with key id or greater, in
\* the order of their keys.
RECURSIVE DbIterStarting(_, _)
DbIterStarting(db, id) ==
    LET keys == {k \in DOMAIN db : k >= id}
    IN IF keys = {} THEN <<>>
       ELSE <<db[Min(keys)]>> \o DbIterStarting(db, Min(keys) + 1)

\* Iterator::take
Take(seq, count) == SubSeq(seq, 1, IF count < Len(seq) THEN count ELSE Len(seq))

None == [some |-> FALSE, blocks |-> <<>>]
Some(bs) == [some |-> TRUE, blocks |-> bs]

\* Blockchain::blocks_range
blocks_range(c, starting_hash, count) ==
    IF starting_hash \in DOMAIN c.block_by_hash
    THEN LET block_id == c.block_by_hash[starting_hash] + 1
         IN Some(Take(DbIterStarting(c.database, block_id), count))
    ELSE None

\* ------------------------------------------------------------------------
\* The node: the mempool and the chain that validate_transaction reads
\* (node/src/validation.rs).
\* ------------------------------------------------------------------------
VARIABLES
    mempool,             \* Mempool: the set of its transactions
    node_chain,          \* Blockchain: unspent outputs, escrow and epoch
    fees,                \* payment_fee and stake_fee of the node
    fresh_outputs,       \* outputs added to the chain since the mempool changed
    tx_call,             \* the last call on the node and its arguments
    tx_result            \* what the last call on the node returned

nodeVars == <<mempool, node_chain, fees, fresh_outputs, tx_call, tx_result>>

\* The outputs that transactions and micro blocks of the node may carry.
TxOutputUniverse ==
    {PaymentOutput(2, 1), PaymentOutput(1, 1),
     StakeOutput("V1", 2), StakeOutput("V1", 1), StakeOutput("V2", 1)}
TxOutputHashes == {HashOutput(o) : o \in TxOutputUniverse}
TxOutputOfHash(h) == CHOOSE o \in TxOutputUniverse : HashOutput(o) = h

\* The unspent outputs of the chain the node starts with (genesis).
GenesisOutputs == {PaymentOutput(2, 1), StakeOutput("V1", 2), StakeOutput("V2", 1)}

\* BlockchainConfig::stake_epochs
stake_epochs == 1

\* Escrow::stake of the node's chain: the record is active until the epoch
\* it was staked in plus stake_epochs.
NodeStake(esc, o, at_epoch) ==
    IF o.type # "StakeOutput" \/ <<o.validator, HashOutput(o)>> \in DOMAIN esc
    THEN esc
    ELSE MapPut(esc, <<o.validator, HashOutput(o)>>,
                [amount |-> o.amount, active_until_epoch |-> at_epoch + stake_epochs])

RECURSIVE NodeStakeAll(_, _, _)
NodeStakeAll(esc, outs, at_epoch) ==
    IF outs = {} THEN esc
    ELSE LET o == CHOOSE x \in outs : TRUE
         IN NodeStakeAll(NodeStake(esc, o, at_epoch), outs \ {o}, at_epoch)

\* Blockchain::testing(cfg, genesis, timestamp)
NodeChainGenesis ==
    [unspent |-> GenesisOutputs, escrow |-> NodeStakeAll(EmptyMap, GenesisOutputs, 0),
     epoch |-> 0]

\* Blockchain::output_by_hash(h) is Some / Blockchain::contains_output(h)
ChainContainsOutput(ch, h) == \E o \in ch.unspent : HashOutput(o) = h

\* Escrow::get: the active balance and the whole balance of a validator.
ActiveBalance(ch, validator) ==
    SumAmounts(ch.escrow, {k \in DOMAIN ch.escrow :
                              /\ k[1] = validator
                              /\ ch.escrow[k].active_until_epoch > ch.epoch})
TotalBalance(ch, validator) ==
    SumAmounts(ch.escrow, {k \in DOMAIN ch.escrow : k[1] = validator})

\* Blockchain::validate_staking_balance: the map is visited in the order of
\* the HashMap, so any of the validators whose stake is locked may be the
\* one that is reported.
validate_staking_balance(ch, staking_balance) ==
    LET expected(v) == TotalBalance(ch, v) + staking_balance[v]
        locked == {v \in DOMAIN staking_balance : expected(v) < ActiveBalance(ch, v)}
    IN IF locked = {} THEN {Ok}
       ELSE {Err("StakeIsLocked", <<v, expected(v), ActiveBalance(ch, v)>>) : v \in locked}

\* Blockchain::push_micro_block with a block of one new output.
push_micro_block(ch, o) ==
    [ch EXCEPT !.unspent = @ \cup {o}, !.escrow = NodeStake(@, o, ch.epoch)]

\* Mempool::contains_tx, contains_input, contains_output, push_tx, prune
HashTx(tx) ==
    <<tx.txins, [i \in 1 .. Len(tx.txouts) |-> HashOutput(tx.txouts[i])],
      tx.fee, tx.gamma, tx.signed>>
contains_tx(mp, tx_hash) == \E t \in mp : HashTx(t) = tx_hash
contains_input(mp, h) == \E t \in mp : \E i \in 1 .. Len(t.txins) : t.txins[i] = h
contains_output(mp, h) ==
    \E t \in mp : \E i \in 1 .. Len(t.txouts) : HashOutput(t.txouts[i]) = h
push_tx(mp, tx) == mp \cup {tx}
prune(mp, input_hashes, output_hashes) ==
    {t \in mp :
        /\ \A i \in 1 .. Len(t.txins) : t.txins[i] \notin input_hashes
        /\ \A i \in 1 .. Len(t.txouts) : HashOutput(t.txouts[i]) \notin output_hashes}

\* Transaction::validate(inputs): the signature and the monetary balance.
tx_validate(tx, inputs) ==
    IF ~tx.signed THEN Err("InvalidSignature", <<HashTx(tx)>>)
    ELSE IF ECpSub(ECpSub(SumCommitments(inputs), SumCommitments(tx.txouts)),
                   fee_a(tx.fee)) # MulG(tx.gamma)
    THEN Err("InvalidTransactionBalance", <<HashTx(tx)>>)
    ELSE Ok

\* The minimum fee with stake outputs contributing nothing.
RECURSIVE MinFee_StakeFree(_, _, _)
MinFee_StakeFree(txouts, payment_fee, stake_fee) ==
    IF txouts = <<>> THEN 0
    ELSE (IF Head(txouts).type = "PaymentOutput" THEN payment_fee ELSE 0)
         + MinFee_StakeFree(Tail(txouts), payment_fee, stake_fee)

\* "Check fee": the loop over tx.body.txouts.
RECURSIVE MinFee(_, _, _)
MinFee(txouts, payment_fee, stake_fee) ==
    IF txouts = <<>> THEN 0
    ELSE (IF Head(txouts).type = "PaymentOutput" THEN payment_fee ELSE stake_fee)
         + MinFee(Tail(txouts), payment_fee, stake_fee)

\* The entry of the validator overwritten instead of added to.
AddStake_Overwrite(staking_balance, validator, amount) ==
    MapPut(staking_balance, validator, amount)

\* staking_balance.entry(validator).or_insert(0), then *entry += amount
AddStake(staking_balance, validator, amount) ==
    MapPut(staking_balance, validator,
           (IF validator \in DOMAIN staking_balance THEN staking_balance[validator] ELSE 0)
             + amount)

\* The loop over the inputs without the look into the mempool.
RECURSIVE ValidateInputs_Unclaimed(_, _, _, _, _, _)
ValidateInputs_Unclaimed(tx, mp, ch, i, staking_balance, inputs) ==
    IF i > Len(tx.txins)
    THEN [result |-> Ok, staking_balance |-> staking_balance, inputs |-> inputs]
    ELSE LET input_hash == tx.txins[i]
             input == TxOutputOfHash(input_hash)
         IN IF ~ChainContainsOutput(ch, input_hash)
            THEN [result |-> Err("MissingInput", <<HashTx(tx), input_hash>>),
                  staking_balance |-> staking_balance, inputs |-> inputs]
            ELSE ValidateInputs_Unclaimed(tx, mp, ch, i + 1,
                   IF input.type = "StakeOutput"
                   THEN AddStake(staking_balance, input.validator, -input.amount)
                   ELSE staking_balance,
                   Append(inputs, input))

\* "Validate inputs": the loop over tx.body.txins, from input i on.
RECURSIVE ValidateInputs(_, _, _, _, _, _)
ValidateInputs(tx, mp, ch, i, staking_balance, inputs) ==
    IF i > Len(tx.txins)
    THEN [result |-> Ok, staking_balance |-> staking_balance, inputs |-> inputs]
    ELSE LET input_hash == tx.txins[i]
             input == TxOutputOfHash(input_hash)
             failed == [result |-> Err("MissingInput", <<HashTx(tx), input_hash>>),
                        staking_balance |-> staking_balance, inputs |-> inputs]
         IN IF ~ChainContainsOutput(ch, input_hash) THEN failed
            ELSE IF contains_input(mp, input_hash) THEN failed
            ELSE ValidateInputs(tx, mp, ch, i + 1,
                   IF input.type = "StakeOutput"
                   THEN AddStake(staking_balance, input.validator, -input.amount)
                   ELSE staking_balance,
                   Append(inputs, input))

\* The loop over the outputs without the look into the chain.
RECURSIVE ValidateOutputs_MempoolOnly(_, _, _, _, _)
ValidateOutputs_MempoolOnly(tx, mp, ch, i, staking_balance) ==
    IF i > Len(tx.txouts)
    THEN [result |-> Ok, staking_balance |-> staking_balance]
    ELSE LET output == tx.txouts[i]
             output_hash == HashOutput(output)
         IN IF contains_output(mp, output_hash)
            THEN [result |-> Err("OutputHashCollision", <<HashTx(tx), output_hash>>),
                  staking_balance |-> staking_balance]
            ELSE ValidateOutputs_MempoolOnly(tx, mp, ch, i + 1,
                   IF output.type = "StakeOutput"
                   THEN AddStake(staking_balance, output.validator, output.amount)
                   ELSE staking_balance)

\* "Check outputs": the loop over tx.body.txouts, from output i on.
RECURSIVE ValidateOutputs(_, _, _, _, _)
ValidateOutputs(tx, mp, ch, i, staking_balance) ==
    IF i > Len(tx.txouts)
    THEN [result |-> Ok, staking_balance |-> staking_balance]
    ELSE LET output == tx.txouts[i]
             output_hash == HashOutput(output)
         IN IF contains_output(mp, output_hash) \/ ChainContainsOutput(ch, output_hash)
            THEN [result |-> Err("OutputHashCollision", <<HashTx(tx), output_hash>>),
                  staking_balance |-> staking_balance]
            ELSE ValidateOutputs(tx, mp, ch, i + 1,
                   IF output.type = "StakeOutput"
                   THEN AddStake(staking_balance, output.validator, output.amount)
                   ELSE staking_balance)

\* validate_transaction with the inputs validated before the fee is checked.
validate_transaction_InputsFirst(tx, mp, ch, payment_fee, stake_fee) ==
    LET tx_hash == HashTx(tx)
        min_fee == MinFee(tx.txouts, payment_fee, stake_fee)
        ins == ValidateInputs(tx, mp, ch, 1, EmptyMap, <<>>)
        outs == ValidateOutputs(tx, mp, ch, 1, ins.staking_balance)
    IN  IF contains_tx(mp, tx_hash) THEN {Err("AlreadyExists", <<tx_hash>>)}
        ELSE IF ins.result # Ok THEN {ins.result}
        ELSE IF tx.fee < min_fee THEN {Err("TooLowFee", <<tx_hash, min_fee, tx.fee>>)}
        ELSE IF outs.result # Ok THEN {outs.result}
        ELSE IF tx_validate(tx, ins.inputs) # Ok THEN {tx_validate(tx, ins.inputs)}
        ELSE validate_staking_balance(ch, outs.staking_balance)

\* validate_transaction: the results that the call may return.
validate_transaction(tx, mp, ch, payment_fee, stake_fee) ==
    LET tx_hash == HashTx(tx)
        min_fee == MinFee(tx.txouts, payment_fee, stake_fee)
        ins == ValidateInputs(tx, mp, ch, 1, EmptyMap, <<>>)
        outs == ValidateOutputs(tx, mp, ch, 1, ins.staking_balance)
    IN  IF contains_tx(mp, tx_hash) THEN {Err("AlreadyExists", <<tx_hash>>)}
        ELSE IF tx.fee < min_fee THEN {Err("TooLowFee", <<tx_hash, min_fee, tx.fee>>)}
        ELSE IF ins.result # Ok THEN {ins.result}
        ELSE IF outs.result # Ok THEN {outs.result}
        ELSE IF tx_validate(tx, ins.inputs) # Ok THEN {tx_validate(tx, ins.inputs)}
        ELSE validate_staking_balance(ch, outs.staking_balance)

\* Transaction::new: the fee is what the inputs hold more than the outputs,
\* gamma is the gamma of the inputs minus the gamma of the outputs.
NewTransaction(input_hashes, outs) ==
    LET ins == [i \in 1 .. Len(input_hashes) |-> TxOutputOfHash(input_hashes[i])]
        amount(os) == IF os = <<>> THEN 0 ELSE os[1].amount + (IF Len(os) > 1 THEN os[2].amount ELSE 0)
        gam(os) == IF os = <<>> THEN 0 ELSE os[1].gam + (IF Len(os) > 1 THEN os[2].gam ELSE 0)
    IN [txins |-> input_hashes, txouts |-> outs,
        fee |-> amount(ins) - amount(outs),
        gamma |-> FrSub(gam(ins), gam(outs)), signed |-> TRUE]

\* No call was made on the node yet. A call is recorded with the mempool it
\* found.
NoTxCall == [op |-> "new", tx |-> NewTransaction(<<>>, <<>>), before |-> {}]

\* The fees the node is configured with.
FeeChoices == {[payment_fee |-> 1, stake_fee |-> 0], [payment_fee |-> 1, stake_fee |-> 1]}

\* The node after start, configured with the fees f.
NodeStart(f) ==
    /\ mempool = {}
    /\ node_chain = NodeChainGenesis
    /\ fees = f
    /\ fresh_outputs = {}
    /\ tx_call = NoTxCall
    /\ tx_result = Ok

\* The node is not used.
NodeIdle == NodeStart([payment_fee |-> 1, stake_fee |-> 0])

\* ------------------------------------------------------------------------
\* The transaction builders of the wallet and the console.
\* ------------------------------------------------------------------------
VARIABLES
    builder,             \* the last call of a transaction builder and its result
    console              \* ConsoleService and its readline thread

toolVars == <<builder, console>>

\* No transaction builder was called.
NoBuild == [op |-> "none"]

\* ConsoleService::new: the readline thread is started and reads, the
\* channel of capacity 1 between the thread and the service is empty, the
\* wallet has no request and has sent no notification.  token is the
\* token of thread::park and unpark, typed the number of lines read.
NewConsole ==
    [thread |-> "reading", token |-> FALSE, stdin |-> <<>>,
     requests |-> <<>>, wallet_events |-> <<>>, typed |-> 0]

\* The builders and the console are not used.
ToolsIdle == builder = NoBuild /\ console = NewConsole

\* ------------------------------------------------------------------------
\* The unsealed account: its database, the replies of the node, its timers
\* and the notifications of the chain (UnsealedAccountService).
\* ------------------------------------------------------------------------
VARIABLES
    unsealed,            \* UnsealedAccountService: the database and the volatile fields
    node_stream,         \* the node's side: the chain notified and the channel to the account
    clock,               \* the time, in units of 150 seconds
    unsealed_call        \* the last step of the service and what it emitted

unsealedVars == <<unsealed, node_stream, clock, unsealed_call>>

\* The outputs that the chain may hold, and those whose payload the key of
\* the account decrypts. All of them are payment outputs.
AccountOutputs == 1 .. 6
OwnedOutputs == {1, 2, 3, 6}
OutputAmount(h) == IF h = 1 THEN 2 ELSE 1

\* The transactions that the account may create: T1 pays output 4 from
\* output 1 with the change 3, T2 pays output 5 from output 2.
OutgoingTxs ==
    {[hash |-> "T1", txins |-> {1}, txouts |-> {3, 4}],
     [hash |-> "T2", txins |-> {2}, txouts |-> {5}]}
\* The transaction that a Snowball session may create as well: T3 pays
\* output 4 from the outputs 1 and 2.
SnowballTxs == {[hash |-> "T3", txins |-> {1, 2}, txouts |-> {4}]}
AccountTxs == OutgoingTxs \cup SnowballTxs
TxHashes == {tx.hash : tx \in AccountTxs}
OutgoingTx(h) == CHOOSE tx \in AccountTxs : tx.hash = h

\* PENDING_UTXO_TIME is 5 minutes: 2 units of the clock.
PENDING_UTXO_TIME == 2

\* TransactionStatus
NoOffset == [some |-> FALSE]
SomeOffset(offset) == [some |-> TRUE, offset |-> offset]
StatusCreated == [kind |-> "Created"]
StatusAccepted == [kind |-> "Accepted"]
StatusRejected == [kind |-> "Rejected"]
StatusPrepared(e, offset) == [kind |-> "Prepared", epoch |-> e, offset |-> offset]
StatusRollback(e, offset) == [kind |-> "Rollback", epoch |-> e, offset |-> offset]
StatusCommitted(e) == [kind |-> "Committed", epoch |-> e]
StatusConflicted(e, offset) == [kind |-> "Conflicted", epoch |-> e, offset |-> offset]

\* The epochs that the database of the account may have persisted.
PersistedEpochs == 1 .. MaxPersisted

\* AccountDatabase::open: the unspent outputs, the log of outgoing
\* transactions with the status of each, the locked inputs with the time of
\* the lock, the epoch and the flag of the balance of the epoch.
OpenDatabase(e) ==
    [epoch |-> e,
     unspent |-> {1, 2},
     outgoing |-> <<>>,
     status |-> EmptyMap,
     pending_payments |-> EmptyMap,
     current_epoch_balance_changed |-> FALSE]

\* ChainSubscription::new: the request SubscribeChain { epoch, offset } is
\* sent, the subscription is pending until the node answers.
ChainSubscription_new(e, offset) ==
    [state |-> "Pending", epoch |-> e, offset |-> offset]

\* UnsealedAccountService::new
NewUnsealed(e) ==
    [database |-> OpenDatabase(e),
     transaction_response |-> [some |-> FALSE],
     snowball |-> [some |-> FALSE],
     panicked |-> FALSE,
     chain_notifications |-> ChainSubscription_new(OpenDatabase(e).epoch, 0)]

\* The node before the subscription: the chain holds the outputs 1 and 2,
\* the mempool no transaction of the account.
NewStream ==
    [epoch |-> 0, offset |-> 0, utxo |-> {1, 2}, spent |-> {},
     micro |-> <<>>, mempool |-> {}, rx |-> <<>>]

\* What the last step found: when it handled MicroBlockPrepared, the unspent
\* outputs, the statuses and the balance before it; when it handled
\* MicroBlockReverted, whether the step before it prepared the same block.
NoPrior == [kept |-> FALSE, reverted |-> FALSE]

NoUnsealedCall ==
    [op |-> "new", arg |-> <<>>, notified |-> <<>>, responses |-> <<>>, sent |-> <<>>,
     prior |-> NoPrior]

UnsealedIdle ==
    /\ unsealed = NewUnsealed(0)
    /\ node_stream = NewStream
    /\ clock = 0
    /\ unsealed_call = NoUnsealedCall

\* ------------------------------------------------------------------------
\* The wallet: the service of one account (wallet/src/lib.rs).
\* ------------------------------------------------------------------------
VARIABLES
    account,             \* AccountService: Sealed or Unsealed, and what it holds
    events,              \* the channel of AccountEvents not handled yet
    handled,             \* the number of events handled
    acct_call            \* the last event handled, the account before it, the response

walletVars == <<account, events, handled, acct_call, unsealedVars, toolVars>>

\* The password that the secret key of the account is sealed with.
AccountPassword == "pw"
Passwords == {"pw", "bad"}

\* The unspent payment outputs of the account, each of amount 1.
AccountUnspent == {1, 2}

NoResponse == [kind |-> "None", error |-> ""]
Response(kind) == [kind |-> kind, error |-> ""]
ErrorResponse(error) == [kind |-> "Error", error |-> error]

\* AccountEvent::Request { request, tx } and AccountEvent::Subscribe { tx }
RequestEvent(type, password, amount) ==
    [kind |-> "Request", type |-> type, password |-> password, amount |-> amount]
SubscribeEvent == [kind |-> "Subscribe", type |-> "", password |-> "", amount |-> 0]

\* AccountService::new: the account starts sealed, with no subscribers.
NewAccount ==
    [service |-> "Sealed", locked_inputs |-> {}, outgoing |-> 0,
     transaction_response |-> FALSE, subscribers |-> 0]

NoAccountCall == [event |-> SubscribeEvent, before |-> NewAccount, response |-> NoResponse]

AccountStart ==
    /\ account = NewAccount
    /\ events = <<>>
    /\ handled = 0
    /\ acct_call = NoAccountCall

\* ------------------------------------------------------------------------
\* The calls made on the Blockchain object.
\* ------------------------------------------------------------------------
SeqsUpTo(S, n) == UNION {[1 .. k -> S] : k \in 0 .. n}

OutputHashes == {HashOutput(o) : o \in OutputUniverse}

\* The output of the universe with a given hash.
OutputOfHash(h) == CHOOSE o \in OutputUniverse : HashOutput(o) = h

RECURSIVE SumGamma(_)
SumGamma(outs) == IF outs = <<>> THEN 0 ELSE Head(outs).gam + SumGamma(Tail(outs))
RECURSIVE SumAmount(_)
SumAmount(outs) == IF outs = <<>> THEN 0 ELSE Head(outs).amount + SumAmount(Tail(outs))

\* The block a producer builds on top of the last block from a list of
\* inputs and a list of outputs (tests::iterate): gamma is the gamma of the
\* inputs minus the gamma of the outputs, the monetary adjustment is the
\* amount that the block issues.
ProducedBlock(timestamp, input_hashes, outs) ==
    LET ins == [i \in 1 .. Len(input_hashes) |-> OutputOfHash(input_hashes[i])]
    IN MonetaryBlock(
         IF blocks = <<>> THEN GenesisPrevious ELSE HashBlock(blocks[Len(blocks)]),
         epoch, timestamp,
         FrSub(SumGamma(ins), SumGamma(outs)),
         SumAmount(outs) - SumAmount(ins),
         input_hashes, outs)

\* The monetary blocks that may be received: the blocks of a producer, and
\* blocks with a wrong previous hash, gamma or monetary adjustment.
ReceivedMonetaryBlocks ==
    LET produced ==
          {ProducedBlock(0, ins, outs) :
              ins \in SeqsUpTo(OutputHashes, MaxInputs),
              outs \in SeqsUpTo(OutputUniverse, MaxOutputs)}
        valid == {b \in produced :
                    /\ b.monetary_adjustment \in I64
                    /\ Len(b.inputs) + Len(b.outputs) <= MaxBlockSize}
        simple == {b \in valid : Len(b.inputs_range_hash) + Len(b.outputs) <= 1}
    IN valid
       \cup {[b EXCEPT !.previous = <<0>>] : b \in simple}
       \cup {[b EXCEPT !.gamma = FrAdd(@, 1)] : b \in simple}
       \cup {[b EXCEPT !.monetary_adjustment = WrapI64(@ + 1)] : b \in simple}

\* The key blocks that may be received.
ReceivedKeyBlocks ==
    {KeyBlock(previous, block_epoch, 0, "V1", "V2", Validators) :
        previous \in {IF blocks = <<>> THEN GenesisPrevious
                      ELSE HashBlock(blocks[Len(blocks)]), <<0>>},
        block_epoch \in {epoch, epoch + 1}}

\* The values of current_timestamp that a call is tried with; the argument
\* is read only when the block spends a stake.
TimestampChoices(block) ==
    IF \E i \in 1 .. Len(block.inputs) : OutputOfHash(block.inputs[i]).type = "StakeOutput"
    THEN 0 .. MaxTime
    ELSE {0}

NoCall == [op |-> "new", block |-> KeyBlock(GenesisPrevious, 0, 0, "", "", {})]

\* The in-memory part of the Blockchain object.
View(c) == [c EXCEPT !.database = EmptyMap]
NoSnapshot == [taken |-> FALSE, chain |-> View(NewChain)]

SetChain(c) ==
    /\ database' = c.database
    /\ blocks' = c.blocks
    /\ block_by_hash' = c.block_by_hash
    /\ output_by_hash' = c.output_by_hash
    /\ escrow' = c.escrow
    /\ leader' = c.leader
    /\ facilitator' = c.facilitator
    /\ validators' = c.validators
    /\ epoch' = c.epoch
    /\ last_epoch_change' = c.last_epoch_change
    /\ created' = c.created
    /\ burned' = c.burned
    /\ gamma' = c.gamma
    /\ monetary_adjustment' = c.monetary_adjustment

\* The Blockchain object after construction.
ChainStart ==
    /\ database = NewChain.database
    /\ blocks = NewChain.blocks
    /\ block_by_hash = NewChain.block_by_hash
    /\ output_by_hash = NewChain.output_by_hash
    /\ escrow = NewChain.escrow
    /\ leader = NewChain.leader
    /\ facilitator = NewChain.facilitator
    /\ validators = NewChain.validators
    /\ epoch = NewChain.epoch
    /\ last_epoch_change = NewChain.last_epoch_change
    /\ created = NewChain.created
    /\ burned = NewChain.burned
    /\ gamma = NewChain.gamma
    /\ monetary_adjustment = NewChain.monetary_adjustment
    /\ call = NoCall
    /\ result = Ok
    /\ returned = [pruned |-> <<>>, outputs |-> <<>>,
                   pruned_outputs |-> <<>>, recovered_inputs |-> <<>>]
    /\ snapshot = NoSnapshot
    /\ panicked = FALSE

Init == ChainStart /\ NodeIdle /\ AccountStart /\ UnsealedIdle /\ ToolsIdle

Finish(op, block, r) ==
    /\ SetChain(r.chain)
    /\ call' = [op |-> op, block |-> block]
    /\ result' = r.result
    /\ returned' = [pruned |-> r.pruned, outputs |-> r.outputs,
                    pruned_outputs |-> r.pruned_outputs,
                    recovered_inputs |-> r.recovered_inputs]
    /\ snapshot' = IF op = "register_monetary_block" /\ r.result.kind = "Ok"
                   THEN [taken |-> TRUE, chain |-> View(Chain)]
                   ELSE NoSnapshot
    /\ panicked' = (r.result.kind = "Panic")
    /\ UNCHANGED <<nodeVars, walletVars>>

\* A rejected block leaves nothing behind but the persisted entry at the
\* next block id, and the next call overwrites that entry: the calls that
\* follow a rejected call lead where they lead from the state before it,
\* and are explored from there only.
Explored == result.kind \notin ValidationErrors

\* A monetary block is received and registered.
RegisterMonetaryBlock ==
    /\ ~panicked
    /\ Explored
    /\ Len(blocks) < MaxBlocks
    /\ \E block \in ReceivedMonetaryBlocks :
         \E current_timestamp \in TimestampChoices(block) :
            \E r \in register_monetary_block(Chain, block, current_timestamp) :
               Finish("register_monetary_block", block, r)

\* A key block is received and registered.
RegisterKeyBlock ==
    /\ ~panicked
    /\ Explored
    /\ Len(blocks) < MaxBlocks
    /\ \E block \in ReceivedKeyBlocks :
         Finish("register_key_block", block, register_key_block(Chain, block))

\* The micro block that has just been applied is reverted.
RevertMicro ==
    /\ ~panicked
    /\ snapshot.taken
    /\ Finish("revert_micro", NoCall.block, revert_micro(Chain))

Next ==
    \/ RegisterMonetaryBlock
    \/ RegisterKeyBlock
    \/ RevertMicro

Spec == Init /\ [][Next]_vars

\* ------------------------------------------------------------------------
\* The calls made on the node.
\* ------------------------------------------------------------------------
\* The transactions that may be received: the transactions of a wallet, and
\* transactions without a valid signature or with a wrong gamma. Every
\* transaction spends at least one output.
TxCandidates ==
    LET made == {NewTransaction(ins, outs) :
                    ins \in SeqsUpTo(TxOutputHashes, MaxTxInputs) \ {<<>>},
                    outs \in SeqsUpTo(TxOutputUniverse, MaxTxOutputs)}
        sized == {t \in made : Len(t.txins) + Len(t.txouts) <= MaxTxSize}
        simple == {t \in sized : Len(t.txins) + Len(t.txouts) <= 2}
    IN sized
       \cup {[t EXCEPT !.signed = FALSE] : t \in simple}
       \cup {[t EXCEPT !.gamma = FrAdd(@, 1)] : t \in simple}

\* A rejected transaction leaves the node as it was: the calls that follow
\* it are explored from the state before it only.
NodeExplored == tx_result.kind = "Ok"

NodeFinish(op, tx, r) ==
    /\ tx_call' = [op |-> op, tx |-> tx, before |-> mempool]
    /\ tx_result' = r
    /\ fees' = fees
    /\ UNCHANGED <<vars, walletVars>>

\* A transaction is received: it is validated and, if valid, put into the
\* mempool.
SendTransaction ==
    /\ NodeExplored
    /\ Cardinality(mempool) < MaxMempool
    /\ \E tx \in TxCandidates :
         \E r \in validate_transaction(tx, mempool, node_chain,
                                       fees.payment_fee, fees.stake_fee) :
            /\ mempool' = IF r = Ok THEN push_tx(mempool, tx) ELSE mempool
            /\ fresh_outputs' = IF r = Ok THEN {} ELSE fresh_outputs
            /\ node_chain' = node_chain
            /\ NodeFinish("validate_transaction", tx, r)

\* A micro block with one new output is applied to the chain.
PushMicroBlock ==
    /\ NodeExplored
    /\ \E o \in TxOutputUniverse \ node_chain.unspent :
         /\ node_chain' = push_micro_block(node_chain, o)
         /\ fresh_outputs' = fresh_outputs \cup {HashOutput(o)}
         /\ mempool' = mempool
         /\ NodeFinish("push_micro_block", NoTxCall.tx, Ok)

\* The mempool is pruned of the outputs of a transaction only.
PruneMempool_OutputsOnly ==
    /\ NodeExplored
    /\ \E tx \in mempool :
         /\ mempool' = prune(mempool, {},
                             {HashOutput(tx.txouts[i]) : i \in 1 .. Len(tx.txouts)})
         /\ fresh_outputs' = {}
         /\ node_chain' = node_chain
         /\ NodeFinish("prune", tx, Ok)

\* The mempool is pruned of a transaction: of its inputs and its outputs.
PruneMempool ==
    /\ NodeExplored
    /\ \E tx \in mempool :
         /\ mempool' = prune(mempool,
                             {tx.txins[i] : i \in 1 .. Len(tx.txins)},
                             {HashOutput(tx.txouts[i]) : i \in 1 .. Len(tx.txouts)})
         /\ fresh_outputs' = {}
         /\ node_chain' = node_chain
         /\ NodeFinish("prune", tx, Ok)

\* The chain enters the next epoch.
NextEpoch ==
    /\ NodeExplored
    /\ node_chain.epoch < MaxEpoch
    /\ node_chain' = [node_chain EXCEPT !.epoch = @ + 1]
    /\ UNCHANGED <<mempool, fresh_outputs>>
    /\ NodeFinish("next_epoch", NoTxCall.tx, Ok)

allVars == <<vars, nodeVars>>

NodeInit == ChainStart /\ AccountStart /\ UnsealedIdle /\ ToolsIdle /\ \E f \in FeeChoices : NodeStart(f)

NodeNext ==
    \/ SendTransaction
    \/ PushMicroBlock
    \/ PruneMempool
    \/ NextEpoch

NodeSpec == NodeInit /\ [][NodeNext]_allVars

\* ------------------------------------------------------------------------
\* validate_transaction on chains with other stakes.
\* ------------------------------------------------------------------------
\* Blockchain::testing(cfg, genesis, timestamp) with the outputs G as the
\* genesis, and the chain in epoch e: the outputs of late were added by
\* micro blocks of the epoch e, the others are of the epoch 0.
NodeChainOf(G, late, e) ==
    [unspent |-> G,
     escrow |-> NodeStakeAll(NodeStakeAll(EmptyMap, G \ late, 0), late, e),
     epoch |-> e]

\* The node starts on one of these chains with an empty mempool.
StakeStart ==
    /\ mempool = {}
    /\ \E G \in SUBSET TxOutputUniverse :
          \/ node_chain = NodeChainOf(G, {}, 0)
          \/ \E late \in SUBSET {o \in G : o.type = "StakeOutput"}, e \in 1 .. MaxEpoch :
                node_chain = NodeChainOf(G, late, e)
    /\ fees \in FeeChoices
    /\ fresh_outputs = {}
    /\ tx_call = NoTxCall
    /\ tx_result = Ok

\* validate_transaction is called with a transaction, the empty mempool and
\* the chain.
ValidateTransaction ==
    /\ NodeExplored
    /\ \E tx \in TxCandidates :
         \E r \in validate_transaction(tx, mempool, node_chain,
                                       fees.payment_fee, fees.stake_fee) :
            /\ UNCHANGED <<mempool, fresh_outputs, node_chain>>
            /\ NodeFinish("validate_transaction", tx, r)

StakeInit == ChainStart /\ AccountStart /\ UnsealedIdle /\ ToolsIdle /\ StakeStart

StakeNext ==
    \/ ValidateTransaction
    \/ NextEpoch

StakeSpec == StakeInit /\ [][StakeNext]_allVars

\* ------------------------------------------------------------------------
\* The events sent to the account and the polls of its service.
\* ------------------------------------------------------------------------
\* The events that may be sent to the account.
RequestEvents ==
    {RequestEvent("Unseal", pw, 0) : pw \in Passwords}
    \cup {RequestEvent(t, "", 0) : t \in {"AccountInfo", "Disable", "Seal", "BalanceInfo"}}
    \cup {RequestEvent("Payment", "", a) : a \in 1 .. MaxAmount}
    \cup {SubscribeEvent}

\* Account::request and Account::subscribe: the event is put on the channel.
SendEvent ==
    /\ Len(events) < MaxEvents
    /\ handled + Len(events) < MaxHandled
    /\ \E e \in RequestEvents : events' = Append(events, e)
    /\ UNCHANGED <<account, handled, acct_call, vars, nodeVars, unsealedVars, toolVars>>

\* The sealed account answering BalanceInfo as the unsealed account does.
HandleSealedRequest_Serves(acc, request) ==
    IF request.type = "Unseal"
    THEN IF request.password = AccountPassword
         THEN [account |-> [acc EXCEPT !.service = "Unsealed"],
               response |-> Response("Unsealed")]
         ELSE [account |-> acc, response |-> ErrorResponse("InvalidKey")]
    ELSE IF request.type = "AccountInfo"
    THEN [account |-> acc, response |-> Response("AccountInfo")]
    ELSE IF request.type = "Disable"
    THEN [account |-> [acc EXCEPT !.service = "Terminated"], response |-> NoResponse]
    ELSE IF request.type = "BalanceInfo"
    THEN [account |-> acc, response |-> Response("BalanceInfo")]
    ELSE [account |-> acc, response |-> ErrorResponse("Account is sealed")]

\* The sealed account handles a request: the account after it and the
\* response sent, none if the sender is dropped.
HandleSealedRequest(acc, request) ==
    IF request.type = "Unseal"
    THEN IF request.password = AccountPassword
         THEN [account |-> [acc EXCEPT !.service = "Unsealed"],
               response |-> Response("Unsealed")]
         ELSE [account |-> acc, response |-> ErrorResponse("InvalidKey")]
    ELSE IF request.type = "AccountInfo"
    THEN [account |-> acc, response |-> Response("AccountInfo")]
    ELSE IF request.type = "Disable"
    THEN [account |-> [acc EXCEPT !.service = "Terminated"], response |-> NoResponse]
    ELSE [account |-> acc, response |-> ErrorResponse("Account is sealed")]

\* The inputs of a payment: the unlocked outputs of the lowest numbers.
RECURSIVE PaymentInputs(_, _)
PaymentInputs(available, amount) ==
    IF amount = 0 \/ available = {} THEN {}
    ELSE LET o == CHOOSE x \in available : \A y \in available : x <= y
         IN {o} \cup PaymentInputs(available \ {o}, amount - 1)

\* UnsealedAccountService::payment, send_and_log_transaction and
\* send_transaction.
Payment(acc, amount) ==
    LET available == AccountUnspent \ acc.locked_inputs
        logged == [acc EXCEPT !.locked_inputs = @ \cup PaymentInputs(available, amount),
                              !.outgoing = @ + 1]
    IN IF amount > Cardinality(available)
       THEN [account |-> acc, response |-> ErrorResponse("NoEnoughToPay")]
       ELSE IF acc.transaction_response
       THEN [account |-> logged,
             response |-> ErrorResponse("old transaction still on the way to mempool")]
       ELSE [account |-> [logged EXCEPT !.transaction_response = TRUE],
             response |-> Response("TransactionCreated")]

\* The unsealed account answering Unseal as the sealed account does.
HandleUnsealedRequest_UnsealOk(acc, request) ==
    IF request.type = "Unseal"
    THEN [account |-> acc, response |-> Response("Unsealed")]
    ELSE IF request.type = "Disable"
    THEN [account |-> [acc EXCEPT !.service = "Terminated"],
          response |-> Response("Disabled")]
    ELSE IF request.type = "Seal"
    THEN [account |-> [acc EXCEPT !.service = "Sealed", !.transaction_response = FALSE],
          response |-> Response("Sealed")]
    ELSE IF request.type = "Payment"
    THEN Payment(acc, request.amount)
    ELSE IF request.type = "AccountInfo"
    THEN [account |-> acc, response |-> Response("AccountInfo")]
    ELSE [account |-> acc, response |-> Response("BalanceInfo")]

\* The unsealed account handles a request.
HandleUnsealedRequest(acc, request) ==
    IF request.type = "Unseal"
    THEN [account |-> acc, response |-> ErrorResponse("Already unsealed")]
    ELSE IF request.type = "Disable"
    THEN [account |-> [acc EXCEPT !.service = "Terminated"],
          response |-> Response("Disabled")]
    ELSE IF request.type = "Seal"
    THEN [account |-> [acc EXCEPT !.service = "Sealed", !.transaction_response = FALSE],
          response |-> Response("Sealed")]
    ELSE IF request.type = "Payment"
    THEN Payment(acc, request.amount)
    ELSE IF request.type = "AccountInfo"
    THEN [account |-> acc, response |-> Response("AccountInfo")]
    ELSE [account |-> acc, response |-> Response("BalanceInfo")]

\* AccountEvent::Subscribe: the subscriber is kept, nothing is answered.
Subscribed(acc) ==
    [account |-> [acc EXCEPT !.subscribers = @ + 1], response |-> NoResponse]

\* One turn of the event loop: the first event of the channel was handled
\* with the outcome done.
HandleEvent(done) ==
    /\ account' = done.account
    /\ acct_call' = [event |-> Head(events), before |-> account,
                     response |-> done.response]
    /\ events' = Tail(events)
    /\ handled' = handled + 1
    /\ UNCHANGED <<vars, nodeVars, unsealedVars, toolVars>>

\* SealedAccountService::poll
PollSealed ==
    /\ account.service = "Sealed"
    /\ events # <<>>
    /\ HandleEvent(IF Head(events).kind = "Subscribe" THEN Subscribed(account)
                   ELSE HandleSealedRequest(account, Head(events)))

\* UnsealedAccountService::poll
PollUnsealed ==
    /\ account.service = "Unsealed"
    /\ events # <<>>
    /\ HandleEvent(IF Head(events).kind = "Subscribe" THEN Subscribed(account)
                   ELSE HandleUnsealedRequest(account, Head(events)))

\* The node answers the transaction sent to it.
TransactionResponse ==
    /\ account.service = "Unsealed"
    /\ account.transaction_response
    /\ account' = [account EXCEPT !.transaction_response = FALSE]
    /\ UNCHANGED <<events, handled, acct_call, vars, nodeVars, unsealedVars, toolVars>>

WalletInit == ChainStart /\ NodeIdle /\ AccountStart /\ UnsealedIdle /\ ToolsIdle

WalletNext ==
    \/ SendEvent
    \/ PollSealed
    \/ PollUnsealed
    \/ TransactionResponse

WalletSpec == WalletInit /\ [][WalletNext]_<<allVars, walletVars>>

\* The account service keeps being polled: AccountService::poll notifies
\* its own task when it changes the service, and the channel of events
\* wakes the task while an event is queued.
WalletFairSpec ==
    /\ WalletSpec
    /\ WF_<<allVars, walletVars>>(PollSealed)
    /\ WF_<<allVars, walletVars>>(PollUnsealed)

\* ------------------------------------------------------------------------
\* The unsealed account: the database of the account.
\* ------------------------------------------------------------------------
MinOf(S) == CHOOSE x \in S : \A y \in S : x <= y

RECURSIVE SumOutputAmounts(_)
SumOutputAmounts(S) ==
    IF S = {} THEN 0
    ELSE LET h == MinOf(S) IN OutputAmount(h) + SumOutputAmounts(S \ {h})

\* AccountDatabase::balance: the locked outputs count in the current
\* balance, not in the available one.
balance(db) ==
    [current |-> SumOutputAmounts(db.unspent),
     available |-> SumOutputAmounts(db.unspent \ DOMAIN db.pending_payments)]

\* AccountDatabase::available_payment_outputs
available_payment_outputs(db) == db.unspent \ DOMAIN db.pending_payments

\* AccountDatabase::lock_input and unlock_input
lock_input(db, input, time) ==
    [db EXCEPT !.pending_payments = MapPut(@, input, [time |-> time])]
unlock_input(db, input) ==
    [db EXCEPT !.pending_payments = MapRemove(@, input)]

RECURSIVE lock_inputs(_, _, _)
lock_inputs(db, inputs, time) ==
    IF inputs = {} THEN db
    ELSE LET h == MinOf(inputs)
         IN lock_inputs(lock_input(db, h, time), inputs \ {h}, time)

RECURSIVE unlock_inputs(_, _)
unlock_inputs(db, inputs) ==
    IF inputs = {} THEN db
    ELSE LET h == MinOf(inputs)
         IN unlock_inputs(unlock_input(db, h), inputs \ {h})

\* AccountDatabase::push_outgoing: the transaction is logged as Created.
push_outgoing(db, tx) ==
    [db EXCEPT !.outgoing = Append(@, tx.hash),
               !.status = MapPut(@, tx.hash, StatusCreated)]

\* AccountDatabase::tx_entry
tx_entry(db, tx_hash) == tx_hash \in DOMAIN db.status

\* AccountDatabase::update_tx_status
update_tx_status(db, tx_hash, status) ==
    [db EXCEPT !.status = MapPut(@, tx_hash, status)]

\* The statuses of a transaction that is neither committed nor failed.
PendingKinds == {"Created", "Accepted", "Prepared", "Rollback"}
is_pending(status) == status.kind \in PendingKinds

\* AccountDatabase::pending_txs: the transactions to send again, in the
\* order of the log.
pending_txs(db) ==
    SelectSeq(db.outgoing, LAMBDA h : db.status[h].kind \in {"Created", "Accepted"})

\* AccountDatabase::prune_txs: the pending transactions that claim one of
\* the inputs or produce one of the outputs, each with whether all its
\* outputs are among the outputs.
prune_txs(db, inputs, outputs) ==
    LET hit == {h \in DOMAIN db.status :
                   /\ is_pending(db.status[h])
                   /\ \/ OutgoingTx(h).txins \cap inputs # {}
                      \/ OutgoingTx(h).txouts \cap outputs # {}}
    IN [h \in hit |-> OutgoingTx(h).txouts \subseteq outputs]

\* AccountDatabase::rollback_txs: the transactions prepared at the offset.
rollback_txs(db, offset) ==
    {h \in DOMAIN db.status :
        db.status[h].kind = "Prepared" /\ db.status[h].offset = offset}

\* AccountDatabase::finalize_epoch: the transactions prepared in the epoch
\* are committed.
finalize_epoch(db, e) ==
    LET done == {h \in DOMAIN db.status : db.status[h].kind = "Prepared"}
    IN [h \in done |-> StatusCommitted(e)]

\* AccountDatabase::on_epoch_changed
db_on_epoch_changed(db, e) == [db EXCEPT !.epoch = e]

\* ------------------------------------------------------------------------
\* The unsealed account: the handlers of UnsealedAccountService. A handler
\* takes and gives a run: the service, the notifications sent to the
\* subscribers, the responses sent to the requesters and the transactions
\* sent to the node.
\* ------------------------------------------------------------------------
StartRun(u) == [service |-> u, notified |-> <<>>, responses |-> <<>>, sent |-> <<>>]

notify(run, msg) == [run EXCEPT !.notified = Append(@, msg)]
respond(run, response) == [run EXCEPT !.responses = Append(@, response)]
SetDatabase(run, db) == [run EXCEPT !.service.database = db]

\* notify_balance_changed
notify_balance_changed(run, b) ==
    notify(run, [kind |-> "BalanceChanged", balance |-> b])

\* on_output_created: an output that the account owns is put into the
\* unspent outputs; the assertion fails if it is there already.
on_output_created(run, h) ==
    LET db == run.service.database
    IN IF h \notin OwnedOutputs THEN run
       ELSE IF h \in db.unspent
       THEN [run EXCEPT !.service.database.current_epoch_balance_changed = TRUE,
                        !.service.panicked = TRUE]
       ELSE notify([run EXCEPT !.service.database.current_epoch_balance_changed = TRUE,
                               !.service.database.unspent = @ \cup {h}],
                   [kind |-> "Received", output |-> h])

\* The output is notified as spent and stays unspent.
on_output_pruned_Keeps(run, h) ==
    LET db == run.service.database
    IN IF h \notin db.unspent THEN run
       ELSE notify([run EXCEPT !.service.database.current_epoch_balance_changed = TRUE],
                   [kind |-> "Spent", output |-> h])

\* on_output_pruned: an unspent output of the account is removed.
on_output_pruned(run, h) ==
    LET db == run.service.database
    IN IF h \notin db.unspent THEN run
       ELSE notify([run EXCEPT !.service.database.current_epoch_balance_changed = TRUE,
                               !.service.database.unspent = @ \ {h}],
                   [kind |-> "Spent", output |-> h])

RECURSIVE outputs_created(_, _)
outputs_created(run, outputs) ==
    IF outputs = {} \/ run.service.panicked THEN run
    ELSE LET h == MinOf(outputs)
         IN outputs_created(on_output_created(run, h), outputs \ {h})

RECURSIVE inputs_pruned(_, _)
inputs_pruned(run, inputs) ==
    IF inputs = {} \/ run.service.panicked THEN run
    ELSE LET h == MinOf(inputs)
         IN inputs_pruned(on_output_pruned(run, h), inputs \ {h})

\* The outputs are pruned before the outputs are created.
on_outputs_changed_PruneFirst(run, inputs, outputs, is_final) ==
    LET saved_balance == balance(run.service.database)
        pruned == inputs_pruned(run, inputs)
        made == outputs_created(pruned, outputs)
        final == IF is_final
                 THEN [made EXCEPT
                          !.service.database.current_epoch_balance_changed = FALSE]
                 ELSE made
        b == balance(final.service.database)
    IN IF made.service.panicked THEN made
       ELSE IF saved_balance # b THEN notify_balance_changed(final, b)
       ELSE final

\* on_outputs_changed: first the outputs are created, then the inputs are
\* pruned; the flag of the epoch is cleared by a final block; the balance
\* is notified if it changed.
on_outputs_changed(run, inputs, outputs, is_final) ==
    LET saved_balance == balance(run.service.database)
        made == outputs_created(run, outputs)
        pruned == inputs_pruned(made, inputs)
        final == IF is_final
                 THEN [pruned EXCEPT
                          !.service.database.current_epoch_balance_changed = FALSE]
                 ELSE pruned
        b == balance(final.service.database)
    IN IF pruned.service.panicked THEN pruned
       ELSE IF saved_balance # b THEN notify_balance_changed(final, b)
       ELSE final

\* on_tx_status: the status of a transaction of the log is written.
on_tx_status(run, tx_hash, status) ==
    IF tx_entry(run.service.database, tx_hash)
    THEN notify(SetDatabase(run, update_tx_status(run.service.database, tx_hash, status)),
                [kind |-> "TransactionStatus", tx_hash |-> tx_hash, status |-> status])
    ELSE run

\* on_tx_statuses_changed: changes maps transactions to their new status.
RECURSIVE on_tx_statuses_changed(_, _)
on_tx_statuses_changed(run, changes) ==
    IF DOMAIN changes = {} THEN run
    ELSE LET h == CHOOSE x \in DOMAIN changes : TRUE
         IN on_tx_statuses_changed(on_tx_status(run, h, changes[h]),
                                   MapRemove(changes, h))

\* The reply of the node that has not come yet.
NotReady == [type |-> "NotReady"]

\* The transaction is sent also while a reply is awaited, and its reply
\* takes the place of the awaited one.
send_transaction_Replace(run, tx_hash) ==
    [run |-> [run EXCEPT !.service.transaction_response =
                             [some |-> TRUE, tx_hash |-> tx_hash,
                              response |-> NotReady],
                         !.sent = Append(@, tx_hash)],
     ok |-> TRUE]

\* send_transaction: refused while the reply to a transaction is awaited.
send_transaction(run, tx_hash) ==
    IF run.service.transaction_response.some
    THEN [run |-> run, ok |-> FALSE]
    ELSE [run |-> [run EXCEPT !.service.transaction_response =
                                  [some |-> TRUE, tx_hash |-> tx_hash,
                                   response |-> NotReady],
                              !.sent = Append(@, tx_hash)],
          ok |-> TRUE]

\* send_and_log_transaction: the inputs are locked and the transaction is
\* logged before it is sent.
send_and_log_transaction(run, tx, time) ==
    LET locked == lock_inputs(run.service.database, tx.txins, time)
        logged == SetDatabase(run, push_outgoing(locked, tx))
        sent == send_transaction(logged, tx.hash)
    IN IF sent.ok
       THEN respond(sent.run, Response("TransactionCreated"))
       ELSE respond(sent.run,
                    ErrorResponse("old transaction still on the way to mempool"))

\* handle_resend_pending_txs: every pending transaction is sent again, the
\* error of send_transaction is ignored.
RECURSIVE resend_txs(_, _)
resend_txs(run, txs) ==
    IF txs = <<>> THEN run
    ELSE resend_txs(send_transaction(run, Head(txs)).run, Tail(txs))

handle_resend_pending_txs(run) ==
    resend_txs(run, pending_txs(run.service.database))

\* A lock of any age is outdated.
is_outdated_AnyAge(p, now) == p.time <= now

\* p.time + PENDING_UTXO_TIME <= now
is_outdated(p, now) == p.time + PENDING_UTXO_TIME <= now

\* Snowball::is_my_input
is_my_input(snowball, h) == h \in snowball.inputs

\* The loop of handle_check_pending_utxos over the locks taken out of the
\* database: an outdated lock is dropped and ends the Snowball session
\* that owns the input, any other lock is put back.
RECURSIVE check_pending_utxos(_, _, _, _)
check_pending_utxos(run, pending, hashes, now) ==
    IF hashes = {} THEN run
    ELSE LET h == MinOf(hashes)
             rest == hashes \ {h}
         IN IF is_outdated(pending[h], now)
            THEN IF run.service.snowball.some /\ is_my_input(run.service.snowball, h)
                 THEN check_pending_utxos(
                          respond(notify([run EXCEPT !.service.snowball = [some |-> FALSE]],
                                         [kind |-> "SnowballStatus", state |-> "Failed"]),
                                  ErrorResponse("Snowball timed out")),
                          pending, rest, now)
                 ELSE check_pending_utxos(run, pending, rest, now)
            ELSE check_pending_utxos(
                     [run EXCEPT !.service.database.pending_payments =
                                     MapPut(@, h, pending[h])],
                     pending, rest, now)

\* The locks are not taken out of the database before the loop.
handle_check_pending_utxos_KeepsLocks(run, now) ==
    LET pending == run.service.database.pending_payments
        checked == check_pending_utxos(run, pending, DOMAIN pending, now)
        balance_unlocked == \E h \in DOMAIN pending : is_outdated(pending[h], now)
    IN IF ~balance_unlocked THEN checked
       ELSE notify_balance_changed(checked, balance(checked.service.database))

\* handle_check_pending_utxos
handle_check_pending_utxos(run, now) ==
    LET pending == run.service.database.pending_payments
        taken == [run EXCEPT !.service.database.pending_payments = EmptyMap]
        checked == check_pending_utxos(taken, pending, DOMAIN pending, now)
        balance_unlocked == \E h \in DOMAIN pending : is_outdated(pending[h], now)
    IN IF ~balance_unlocked THEN checked
       ELSE notify_balance_changed(checked, balance(checked.service.database))

\* on_epoch_changed
on_epoch_changed(run, e) ==
    LET changed == SetDatabase(run, db_on_epoch_changed(run.service.database, e))
    IN on_tx_statuses_changed(changed, finalize_epoch(changed.service.database, e))

\* The blocks of the chain, as the notifications carry them.
MicroBlock(e, offset, inputs, outputs) ==
    [epoch |-> e, offset |-> offset, inputs |-> inputs, outputs |-> outputs]
MacroBlock(e, inputs, outputs) ==
    [epoch |-> e, inputs |-> inputs, outputs |-> outputs]

\* ChainNotification
MicroBlockPreparedNotification(block) ==
    [type |-> "MicroBlockPrepared", block |-> block]
MicroBlockRevertedNotification(block) ==
    [type |-> "MicroBlockReverted", block |-> block,
     pruned_outputs |-> block.outputs, recovered_inputs |-> block.inputs]
MacroBlockCommittedNotification(block) ==
    [type |-> "MacroBlockCommitted", block |-> block]

\* Every transaction that the block touches is taken as prepared.
MicroBlockPrepared_NoConflict(run, block) ==
    LET txs == prune_txs(run.service.database, block.inputs, block.outputs)
        statuses == [h \in DOMAIN txs |-> StatusPrepared(block.epoch, block.offset)]
    IN on_outputs_changed(on_tx_statuses_changed(run, statuses),
                          block.inputs, block.outputs, FALSE)

\* ChainNotification::MicroBlockPrepared(block)
MicroBlockPrepared(run, block) ==
    LET txs == prune_txs(run.service.database, block.inputs, block.outputs)
        statuses == [h \in DOMAIN txs |->
                        IF txs[h] THEN StatusPrepared(block.epoch, block.offset)
                        ELSE StatusConflicted(block.epoch, SomeOffset(block.offset))]
    IN on_outputs_changed(on_tx_statuses_changed(run, statuses),
                          block.inputs, block.outputs, FALSE)

\* The block is not final for the balance of the epoch.
MacroBlockCommitted_NotFinal(run, block) ==
    LET txs == prune_txs(run.service.database, block.inputs, block.outputs)
        statuses == [h \in DOMAIN txs |->
                        IF txs[h] THEN StatusCommitted(block.epoch)
                        ELSE StatusConflicted(block.epoch, NoOffset)]
        changed == on_outputs_changed(on_tx_statuses_changed(run, statuses),
                                      block.inputs, block.outputs, FALSE)
    IN IF changed.service.panicked THEN changed
       ELSE on_epoch_changed(changed, block.epoch)

\* ChainNotification::MacroBlockCommitted(block)
MacroBlockCommitted(run, block) ==
    LET txs == prune_txs(run.service.database, block.inputs, block.outputs)
        statuses == [h \in DOMAIN txs |->
                        IF txs[h] THEN StatusCommitted(block.epoch)
                        ELSE StatusConflicted(block.epoch, NoOffset)]
        changed == on_outputs_changed(on_tx_statuses_changed(run, statuses),
                                      block.inputs, block.outputs, TRUE)
    IN IF changed.service.panicked THEN changed
       ELSE on_epoch_changed(changed, block.epoch)

\* The transactions of the reverted block keep their status.
MicroBlockReverted_KeepsStatus(run, notification) ==
    on_outputs_changed(run, notification.pruned_outputs,
                       notification.recovered_inputs, FALSE)

\* ChainNotification::MicroBlockReverted(block): the pruned outputs of the
\* block are the inputs of on_outputs_changed, its recovered inputs are the
\* outputs.
MicroBlockReverted(run, notification) ==
    LET txs == rollback_txs(run.service.database, notification.block.offset)
        statuses == [h \in txs |-> StatusCreated]
    IN on_outputs_changed(on_tx_statuses_changed(run, statuses),
                          notification.pruned_outputs,
                          notification.recovered_inputs, FALSE)

\* The notification is handled by the arm of its type.
HandleChainNotification(run, notification) ==
    IF notification.type = "MicroBlockPrepared"
    THEN MicroBlockPrepared(run, notification.block)
    ELSE IF notification.type = "MacroBlockCommitted"
    THEN MacroBlockCommitted(run, notification.block)
    ELSE MicroBlockReverted(run, notification)

\* UnsealedAccountService::payment for one of the transactions that the
\* available outputs pay for.
payment(run, tx, time) ==
    IF SumOutputAmounts(tx.txouts \ OwnedOutputs)
           > balance(run.service.database).available
    THEN respond(run, ErrorResponse("NoEnoughToPay"))
    ELSE send_and_log_transaction(run, tx, time)

\* UnsealedAccountService::secure_payment and the arm of the request: the
\* inputs are locked and the session is kept, nothing is answered yet.
secure_payment(run, tx, time) ==
    IF run.service.snowball.some
    THEN respond(run, ErrorResponse("SnowballBusy"))
    ELSE IF SumOutputAmounts(tx.txouts \ OwnedOutputs)
               > balance(run.service.database).available
    THEN respond(run, ErrorResponse("NoEnoughToPay"))
    ELSE notify([run EXCEPT
                    !.service.database = lock_inputs(@, tx.txins, time),
                    !.service.snowball =
                        [some |-> TRUE, inputs |-> tx.txins, tx_hash |-> tx.hash]],
                [kind |-> "SnowballStatus", state |-> "PoolWait"])

\* handle_snowball_transaction: the transaction of the session is logged,
\* and sent by the leader of the session.
handle_snowball_transaction(run, tx, is_leader) ==
    LET logged == SetDatabase(run, push_outgoing(run.service.database, tx))
        sent == send_transaction(logged, tx.hash)
    IN IF ~is_leader THEN respond(logged, Response("TransactionCreated"))
       ELSE IF sent.ok THEN respond(sent.run, Response("TransactionCreated"))
       ELSE respond(sent.run,
                    ErrorResponse("old transaction still on the way to mempool"))

\* The poll of the Snowball session, when it ends: with its transaction,
\* or with an error and the inputs to unlock.
snowball_ended(run, succeeded, is_leader) ==
    LET session == run.service.snowball
        taken == [run EXCEPT !.service.snowball = [some |-> FALSE]]
    IN IF succeeded
       THEN handle_snowball_transaction(
                notify(taken, [kind |-> "SnowballStatus", state |-> "Succeeded"]),
                OutgoingTx(session.tx_hash), is_leader)
       ELSE respond(
                SetDatabase(notify(taken, [kind |-> "SnowballStatus", state |-> "Failed"]),
                            unlock_inputs(taken.service.database, session.inputs)),
                ErrorResponse("Snowball failed"))

\* The reply of the node to the transaction sent, as poll takes it.
transaction_replied(run, response) ==
    LET taken == [run EXCEPT !.service.transaction_response = [some |-> FALSE]]
    IN IF response.type = "BroadcastTransaction"
       THEN on_tx_status(taken, response.hash, response.status)
       ELSE taken

\* ------------------------------------------------------------------------
\* The unsealed account: the steps of the node and of the service.
\* ------------------------------------------------------------------------
\* The outputs that no block of the chain has created.
FreshOutputs(stream) == AccountOutputs \ (stream.utxo \cup stream.spent)

poll_subscribed == unsealed.chain_notifications.state = "Active"
Running == ~unsealed.panicked

\* The reply of the node to the transaction sent has come.
ReplyReady ==
    /\ unsealed.transaction_response.some
    /\ unsealed.transaction_response.response # NotReady

\* poll takes the reply of the node before anything else: the other steps
\* run when no reply has come.
Polling == Running /\ ~ReplyReady

\* The node answers SubscribeChain { epoch, offset }: the notifications
\* start at that block.
SubscribedChain ==
    /\ Polling
    /\ unsealed.chain_notifications.state = "Pending"
    /\ unsealed' = [unsealed EXCEPT !.chain_notifications.state = "Active"]
    /\ node_stream' = [node_stream EXCEPT
                          !.epoch = unsealed.chain_notifications.epoch,
                          !.offset = unsealed.chain_notifications.offset]
    /\ unsealed_call' = [op |-> "SubscribedChain", arg |-> <<>>, notified |-> <<>>,
                         responses |-> <<>>, sent |-> <<>>, prior |-> NoPrior]
    /\ UNCHANGED <<clock, account, events, handled, acct_call, toolVars, vars, nodeVars>>

\* The node's side leaves the service alone.
StreamStep ==
    /\ poll_subscribed
    /\ Len(node_stream.rx) < MaxQueue
    /\ UNCHANGED <<unsealed, unsealed_call, clock,
                   account, events, handled, acct_call, toolVars, vars, nodeVars>>

\* The transactions that the blocks of the chain are made of: those of the
\* account, a transaction that spends output 1 for outputs that are not
\* told, a payment of output 6 to the account and a transaction that
\* spends output 6.
ChainTxs ==
    {[txins |-> tx.txins, txouts |-> tx.txouts] : tx \in AccountTxs}
    \cup {[txins |-> {1}, txouts |-> {}],
          [txins |-> {}, txouts |-> {6}],
          [txins |-> {6}, txouts |-> {}]}

\* A transaction of the account is put into a block from the mempool.
InMempool(tx) ==
    \A t \in AccountTxs :
        (t.txins = tx.txins /\ t.txouts = tx.txouts) => t.hash \in node_stream.mempool

\* The chain applies a micro block of one transaction: its inputs are
\* unspent outputs, its outputs are new.
EmitMicroBlock ==
    /\ StreamStep
    /\ node_stream.offset < MaxOffset
    /\ \E tx \in ChainTxs :
         /\ InMempool(tx)
         /\ tx.txins \subseteq node_stream.utxo
         /\ tx.txouts \subseteq FreshOutputs(node_stream)
         /\ LET block == MicroBlock(node_stream.epoch, node_stream.offset,
                                    tx.txins, tx.txouts)
            IN node_stream' = [node_stream EXCEPT
                   !.offset = @ + 1,
                   !.utxo = (@ \ tx.txins) \cup tx.txouts,
                   !.spent = @ \cup tx.txins,
                   !.micro = Append(@, block),
                   !.rx = Append(@, MicroBlockPreparedNotification(block))]

\* The chain reverts its last micro block.
EmitRevert ==
    /\ StreamStep
    /\ node_stream.micro # <<>>
    /\ LET block == node_stream.micro[Len(node_stream.micro)]
       IN node_stream' = [node_stream EXCEPT
              !.offset = @ - 1,
              !.utxo = (@ \ block.outputs) \cup block.inputs,
              !.spent = @ \ block.inputs,
              !.micro = SubSeq(@, 1, Len(@) - 1),
              !.rx = Append(@, MicroBlockRevertedNotification(block))]

\* The chain applies a macro block of one or two transactions, the second
\* of which may spend an output of the first.
EmitMacroBlock ==
    /\ StreamStep
    /\ node_stream.epoch < unsealed.chain_notifications.epoch + MaxMacro
    /\ \E tx1 \in ChainTxs, tx2 \in ChainTxs \cup {[txins |-> {}, txouts |-> {}]} :
         LET inputs == tx1.txins \cup tx2.txins
             outputs == tx1.txouts \cup tx2.txouts
         IN /\ InMempool(tx1)
            /\ InMempool(tx2)
            /\ tx1.txins \cap tx2.txins = {}
            /\ tx1.txouts \cap tx2.txouts = {}
            /\ tx1.txins \subseteq node_stream.utxo
            /\ tx2.txins \subseteq node_stream.utxo \cup tx1.txouts
            /\ outputs \subseteq FreshOutputs(node_stream)
            /\ LET block == MacroBlock(node_stream.epoch, inputs, outputs)
               IN node_stream' = [node_stream EXCEPT
                      !.epoch = @ + 1,
                      !.offset = 0,
                      !.utxo = (@ \cup outputs) \ inputs,
                      !.spent = @ \cup inputs,
                      !.micro = <<>>,
                      !.rx = Append(@, MacroBlockCommittedNotification(block))]

\* The time passes.
ClockTick ==
    /\ clock < MaxClock
    /\ clock' = clock + 1
    /\ UNCHANGED <<unsealed, node_stream, unsealed_call,
                   account, events, handled, acct_call, toolVars, vars, nodeVars>>

\* One step of UnsealedAccountService::poll has run.
UnsealedStep(op, arg, run) ==
    /\ unsealed' = run.service
    /\ unsealed_call' = [op |-> op, arg |-> arg, notified |-> run.notified,
                         responses |-> run.responses, sent |-> run.sent,
                         prior |-> IF op = "ChainNotified"
                                      /\ arg.type = "MicroBlockPrepared"
                                   THEN [kept |-> TRUE, reverted |-> FALSE,
                                         unspent |-> unsealed.database.unspent,
                                         status |-> unsealed.database.status,
                                         balance |-> balance(unsealed.database)]
                                   ELSE IF op = "ChainNotified"
                                           /\ arg.type = "MicroBlockReverted"
                                   THEN [kept |-> FALSE,
                                         reverted |-> unsealed_call.prior.kept
                                            /\ unsealed_call.arg.block = arg.block]
                                   ELSE NoPrior]
    /\ UNCHANGED <<clock, account, events, handled, acct_call, toolVars, vars, nodeVars>>

\* The node handles the transaction sent and replies: an accepted
\* transaction is in its mempool.
NodeReplies ==
    /\ unsealed.transaction_response.some
    /\ ~ReplyReady
    /\ \E response \in
           {[type |-> "BroadcastTransaction",
             hash |-> unsealed.transaction_response.tx_hash, status |-> s] :
                s \in {StatusAccepted, StatusRejected}}
           \cup {[type |-> "Error"]} :
         /\ unsealed' = [unsealed EXCEPT !.transaction_response.response = response]
         /\ node_stream' =
               IF response.type = "BroadcastTransaction" /\ response.status = StatusAccepted
               THEN [node_stream EXCEPT !.mempool = @ \cup {response.hash}]
               ELSE node_stream
    /\ UNCHANGED <<unsealed_call, clock, account, events, handled, acct_call,
                   toolVars, vars, nodeVars>>

\* poll takes the reply of the node to the transaction sent.
TransactionReplied ==
    /\ Running
    /\ ReplyReady
    /\ UnsealedStep("TransactionReplied", unsealed.transaction_response.response,
                    transaction_replied(StartRun(unsealed),
                                        unsealed.transaction_response.response))
    /\ UNCHANGED node_stream

\* The timer resend_tx fires.
ResendTick ==
    /\ Polling
    /\ UnsealedStep("ResendTick", <<>>, handle_resend_pending_txs(StartRun(unsealed)))
    /\ UNCHANGED node_stream

\* The timer check_pending_utxos fires.
CheckTick ==
    /\ Polling
    /\ UnsealedStep("CheckTick", clock,
                    handle_check_pending_utxos(StartRun(unsealed), clock))
    /\ UNCHANGED node_stream

\* The Snowball session ends.
SnowballEnded ==
    /\ Polling
    /\ unsealed.snowball.some
    /\ \E succeeded \in BOOLEAN, is_leader \in BOOLEAN :
         UnsealedStep("SnowballEnded", <<succeeded, is_leader>>,
                      snowball_ended(StartRun(unsealed), succeeded, is_leader))
    /\ UNCHANGED node_stream

\* The transactions that a request may create: not logged yet, paid from
\* the available outputs.
NewOf(txs) ==
    {tx \in txs :
        /\ ~tx_entry(unsealed.database, tx.hash)
        /\ ~(unsealed.snowball.some /\ unsealed.snowball.tx_hash = tx.hash)
        /\ tx.txins \subseteq available_payment_outputs(unsealed.database)}
NewTxs == NewOf(OutgoingTxs)
NewSnowballTxs == NewOf(AccountTxs)

\* AccountRequest::Payment
PaymentRequest ==
    /\ Polling
    /\ \E tx \in NewTxs :
         UnsealedStep("Payment", tx.hash, payment(StartRun(unsealed), tx, clock))
    /\ UNCHANGED node_stream

\* AccountRequest::SecurePayment
SecurePaymentRequest ==
    /\ Polling
    /\ \E tx \in NewSnowballTxs :
         UnsealedStep("SecurePayment", tx.hash,
                      secure_payment(StartRun(unsealed), tx, clock))
    /\ UNCHANGED node_stream

\* poll takes the newest notification of the chain, not the oldest.
ChainNotified_Newest ==
    /\ Polling
    /\ poll_subscribed
    /\ node_stream.rx # <<>>
    /\ LET newest == node_stream.rx[Len(node_stream.rx)]
       IN UnsealedStep("ChainNotified", newest,
                       HandleChainNotification(StartRun(unsealed), newest))
    /\ node_stream' = [node_stream EXCEPT !.rx = SubSeq(@, 1, Len(@) - 1)]

\* poll takes the next notification of the chain.
ChainNotified ==
    /\ Polling
    /\ poll_subscribed
    /\ node_stream.rx # <<>>
    /\ UnsealedStep("ChainNotified", Head(node_stream.rx),
                    HandleChainNotification(StartRun(unsealed), Head(node_stream.rx)))
    /\ node_stream' = [node_stream EXCEPT !.rx = Tail(@)]

UnsealedStart ==
    /\ \E e \in PersistedEpochs :
         /\ unsealed = NewUnsealed(e)
         /\ unsealed_call = NoUnsealedCall
    /\ node_stream = NewStream
    /\ clock = 0

AccountInit == ChainStart /\ NodeIdle /\ AccountStart /\ UnsealedStart /\ ToolsIdle

AccountNext ==
    \/ SubscribedChain
    \/ EmitMicroBlock
    \/ EmitRevert
    \/ EmitMacroBlock
    \/ NodeReplies
    \/ TransactionReplied
    \/ ResendTick
    \/ PaymentRequest
    \/ ChainNotified

AccountSpec == AccountInit /\ [][AccountNext]_<<allVars, walletVars>>

\* The timers of the account: the locks of the inputs and the Snowball
\* session, under the micro blocks of the chain.
TimerNext ==
    \/ SubscribedChain
    \/ EmitMicroBlock
    \/ ChainNotified
    \/ ClockTick
    \/ CheckTick
    \/ PaymentRequest
    \/ SecurePaymentRequest
    \/ SnowballEnded
    \/ NodeReplies
    \/ TransactionReplied

TimerSpec == AccountInit /\ [][TimerNext]_<<allVars, walletVars>>

\* The account is sealed and unsealed again: the notifications have been
\* handled; UnsealedAccountService::new opens the database as the service
\* sealed left it and subscribes from the epoch of the database and the
\* offset 0.
Reseal ==
    /\ Polling
    /\ poll_subscribed
    /\ node_stream.rx = <<>>
    /\ unsealed.database.epoch = node_stream.epoch
    /\ unsealed' = [database |-> unsealed.database,
                    transaction_response |-> [some |-> FALSE],
                    snowball |-> [some |-> FALSE],
                    panicked |-> FALSE,
                    chain_notifications |->
                        ChainSubscription_new(unsealed.database.epoch, 0)]
    /\ unsealed_call' = [op |-> "Reseal", arg |-> <<>>, notified |-> <<>>,
                         responses |-> <<>>, sent |-> <<>>, prior |-> NoPrior]
    /\ UNCHANGED <<node_stream, clock, account, events, handled, acct_call,
                   toolVars, vars, nodeVars>>

\* The node answers SubscribeChain { epoch, offset } of an account whose
\* epoch is the epoch of the chain: it sends the micro blocks of the epoch
\* from the offset on, then the blocks to come.
micro_blocks_from(stream, offset) ==
    [i \in 1 .. Len(stream.micro) - offset |->
        MicroBlockPreparedNotification(stream.micro[i + offset])]

SubscribedFrom ==
    /\ Polling
    /\ unsealed.chain_notifications.state = "Pending"
    /\ unsealed' = [unsealed EXCEPT !.chain_notifications.state = "Active"]
    /\ node_stream' =
          IF node_stream.epoch = unsealed.chain_notifications.epoch
          THEN [node_stream EXCEPT
                   !.rx = micro_blocks_from(node_stream,
                                            unsealed.chain_notifications.offset)]
          ELSE [node_stream EXCEPT
                   !.epoch = unsealed.chain_notifications.epoch,
                   !.offset = unsealed.chain_notifications.offset]
    /\ unsealed_call' = [op |-> "SubscribedChain", arg |-> <<>>, notified |-> <<>>,
                         responses |-> <<>>, sent |-> <<>>, prior |-> NoPrior]
    /\ UNCHANGED <<clock, account, events, handled, acct_call, toolVars, vars, nodeVars>>

\* The account under the blocks of the chain, sealed and unsealed between
\* them.
ResealNext ==
    \/ SubscribedFrom
    \/ EmitMicroBlock
    \/ EmitRevert
    \/ EmitMacroBlock
    \/ ChainNotified
    \/ Reseal

ResealSpec == AccountInit /\ [][ResealNext]_<<allVars, walletVars>>

\* ------------------------------------------------------------------------
\* The transaction builders of the wallet.
\* ------------------------------------------------------------------------
\* PAYMENT_FEE and ESCROW_FEE of the configuration, as the call finds them.
BuilderFees == [payment : 0 .. MaxFee, escrow : 0 .. MaxFee]

\* The unspent outputs handed to a builder: the outputs 1, 2 and 3 hold the
\* amounts 2, 1 and 1.
BuilderOutputs == {1, 2, 3}

\* find_utxo(unspent, amount, fee, fee_change): inputs that pay the amount
\* and the fee with no change, or the amount and the fee of a transaction
\* with a change and the change, or an error.
find_utxo(unspent, amount, fee, fee_change) ==
    LET exact == {[ok |-> TRUE, inputs |-> S, fee |-> fee, change |-> 0] :
                     S \in {T \in SUBSET unspent :
                               SumOutputAmounts(T) = amount + fee}}
        changed == {[ok |-> TRUE, inputs |-> S, fee |-> fee_change,
                     change |-> SumOutputAmounts(S) - amount - fee_change] :
                       S \in {T \in SUBSET unspent :
                                 SumOutputAmounts(T) >= amount + fee_change}}
    IN IF exact \cup changed = {}
       THEN {[ok |-> FALSE, error |-> "NotEnoughMoney"]}
       ELSE exact \cup changed

\* Output::new_payment and Output::new_escrow
BuiltPayment(recipient, amount) ==
    [type |-> "PaymentOutput", recipient |-> recipient, amount |-> amount]
BuiltEscrow(recipient, amount) ==
    [type |-> "StakeOutput", recipient |-> recipient, amount |-> amount]

\* The outcome of a builder: an error, or the transaction with the inputs
\* found; change is what find_utxo returned.
BuildError(error) == [ok |-> FALSE, error |-> error]
Built(found, outputs) ==
    [ok |-> TRUE, change |-> found.change,
     tx |-> [txins |-> found.inputs, txouts |-> outputs, fee |-> found.fee]]

\* create_payment_transaction
create_payment_transaction(cfg, unspent, amount) ==
    IF amount <= 0 THEN {BuildError("ZeroOrNegativeAmount")}
    ELSE {IF ~found.ok THEN BuildError(found.error)
          ELSE Built(found,
                     IF found.change > 0
                     THEN <<BuiltPayment("recipient", amount),
                            BuiltPayment("sender", found.change)>>
                     ELSE <<BuiltPayment("recipient", amount)>>) :
            found \in find_utxo(unspent, amount, cfg.payment,
                                cfg.payment + cfg.payment)}

\* The amount to stake is only checked to be positive.
create_staking_transaction_Positive(cfg, unspent, amount) ==
    IF amount <= 0 THEN {BuildError("ZeroOrNegativeAmount")}
    ELSE {IF ~found.ok THEN BuildError(found.error)
          ELSE Built(found,
                     IF found.change > 0
                     THEN <<BuiltEscrow("sender", amount),
                            BuiltPayment("sender", found.change)>>
                     ELSE <<BuiltEscrow("sender", amount)>>) :
            found \in find_utxo(unspent, amount, cfg.escrow,
                                cfg.escrow + cfg.payment)}

\* create_staking_transaction
create_staking_transaction(cfg, unspent, amount) ==
    IF amount <= cfg.escrow + cfg.payment
    THEN {BuildError("ZeroOrNegativeAmount")}
    ELSE {IF ~found.ok THEN BuildError(found.error)
          ELSE Built(found,
                     IF found.change > 0
                     THEN <<BuiltEscrow("sender", amount),
                            BuiltPayment("sender", found.change)>>
                     ELSE <<BuiltEscrow("sender", amount)>>) :
            found \in find_utxo(unspent, amount, cfg.escrow,
                                cfg.escrow + cfg.payment)}

\* create_unstaking_transaction: the unspent outputs are the stakes.
create_unstaking_transaction(cfg, unspent, amount) ==
    IF amount <= 0 THEN {BuildError("ZeroOrNegativeAmount")}
    ELSE {IF ~found.ok THEN BuildError(found.error)
          ELSE Built(found,
                     IF found.change > 0
                     THEN <<BuiltPayment("sender", amount),
                            BuiltEscrow("sender", found.change)>>
                     ELSE <<BuiltPayment("sender", amount)>>) :
            found \in find_utxo(unspent, amount, cfg.payment,
                                cfg.payment + cfg.escrow)}

\* A builder is about to be called with an amount, a set of unspent
\* outputs and the fees of the configuration.
BuilderStart ==
    \E op \in {"payment", "staking", "unstaking"},
       amount \in -1 .. MaxBuildAmount,
       unspent \in SUBSET BuilderOutputs,
       cfg \in BuilderFees :
         builder = [op |-> op, amount |-> amount, unspent |-> unspent,
                    fees |-> cfg, called |-> FALSE]

\* The builder is called.
CreateTransaction ==
    /\ builder.op \in {"payment", "staking", "unstaking"}
    /\ ~builder.called
    /\ \E r \in (CASE builder.op = "payment" ->
                        create_payment_transaction(builder.fees, builder.unspent,
                                                   builder.amount)
                   [] builder.op = "staking" ->
                        create_staking_transaction(builder.fees, builder.unspent,
                                                   builder.amount)
                   [] builder.op = "unstaking" ->
                        create_unstaking_transaction(builder.fees, builder.unspent,
                                                     builder.amount)) :
         builder' = [builder EXCEPT !.called = TRUE] @@ [result |-> r]
    /\ UNCHANGED <<console, account, events, handled, acct_call, unsealedVars,
                   vars, nodeVars>>

\* The inputs that cloak_all takes: the outputs sorted by amount, the
\* max_inputs largest of them; outputs of the same amount come in the order
\* of the database.
LargestOutputs(available, max_inputs) ==
    {S \in SUBSET available :
        /\ Cardinality(S) = IF Cardinality(available) > max_inputs
                            THEN max_inputs ELSE Cardinality(available)
        /\ \A i \in S, o \in available \ S : OutputAmount(i) >= OutputAmount(o)}

\* cloak_all, up to the transaction built: the available public payment
\* outputs, the fee and max_inputs_in_tx of the account.
cloak_all(available, fee, max_inputs) ==
    {LET amount == SumOutputAmounts(txins)
     IN IF amount < fee
        THEN BuildError("NoEnoughToPayPublicly")
        ELSE IF txins = {}
        THEN [ok |-> FALSE, error |-> "panic: assertion failed: !txins.is_empty()"]
        ELSE [ok |-> TRUE, change |-> 0,
              tx |-> [txins |-> txins,
                      txouts |-> <<BuiltPayment("sender", amount - fee)>>,
                      fee |-> fee]] :
       txins \in LargestOutputs(available, max_inputs)}

\* cloak_all is about to be called.
CloakStart ==
    \E available \in SUBSET BuilderOutputs,
       fee \in 0 .. MaxCloakFee,
       max_inputs \in 1 .. MaxCloakInputs :
         builder = [op |-> "cloak_all", available |-> available, fee |-> fee,
                    max_inputs |-> max_inputs, called |-> FALSE]

\* AccountRequest::CloakAll
CloakAll ==
    /\ builder.op = "cloak_all"
    /\ ~builder.called
    /\ \E r \in cloak_all(builder.available, builder.fee, builder.max_inputs) :
         builder' = [builder EXCEPT !.called = TRUE] @@ [result |-> r]
    /\ UNCHANGED <<console, account, events, handled, acct_call, unsealedVars,
                   vars, nodeVars>>

BuilderInit ==
    /\ ChainStart /\ NodeIdle /\ AccountStart /\ UnsealedIdle
    /\ console = NewConsole
    /\ BuilderStart \/ CloakStart

BuilderNext == CreateTransaction \/ CloakAll

BuilderSpec == BuilderInit /\ [][BuilderNext]_<<allVars, walletVars>>

\* ------------------------------------------------------------------------
\* The console: the readline thread, ConsoleService and the wallet that
\* answers its requests.
\* ------------------------------------------------------------------------
\* The lines typed: a line that on_input handles at once, a payment, and
\* the three lines whose result comes from the wallet.
ConsoleLines == {"help", "pay", "show keys", "show balance", "show utxo"}
InfoLines == {"show keys", "show balance", "show utxo"}

\* The notification that answers the request of a line.
InfoOf(line) ==
    CASE line = "show keys" -> "KeysInfo"
      [] line = "show balance" -> "BalanceInfo"
      [] line = "show utxo" -> "UnspentInfo"

\* The steps of the console leave the rest alone.
ConsoleStep(c) ==
    /\ console' = c
    /\ UNCHANGED <<builder, account, events, handled, acct_call, unsealedVars,
                   vars, nodeVars>>

\* Thread::unpark: a parked thread goes on, any other thread finds the
\* token at its next park.
unpark(c) ==
    IF c.thread = "parked" THEN [c EXCEPT !.thread = "reading"]
    ELSE [c EXCEPT !.token = TRUE]

\* readline_thread_f: a line is read and sent with try_send; the thread
\* panics if the channel is full.
ReadLine ==
    /\ console.thread = "reading"
    /\ console.typed < MaxLines
    /\ \E line \in ConsoleLines :
         ConsoleStep(IF console.stdin # <<>>
                     THEN [console EXCEPT !.thread = "panicked", !.typed = @ + 1]
                     ELSE [console EXCEPT !.thread = "sent", !.typed = @ + 1,
                                          !.stdin = <<line>>])

\* readline_thread_f: thread::park() blocks until the line is processed,
\* and returns at once if the token is there.
Park ==
    /\ console.thread = "sent"
    /\ ConsoleStep(IF console.token
                   THEN [console EXCEPT !.thread = "reading", !.token = FALSE]
                   ELSE [console EXCEPT !.thread = "parked"])

\* on_input: the three show lines send a request to the wallet and keep
\* the thread parked; every other line is handled at once.
on_input(c, line) ==
    IF line \in InfoLines
    THEN [console |-> [c EXCEPT !.requests = Append(@, line)], processed |-> FALSE]
    ELSE IF line = "pay"
    THEN [console |-> [c EXCEPT !.requests = Append(@, line)], processed |-> TRUE]
    ELSE [console |-> c, processed |-> TRUE]

\* ConsoleService::poll, the loop over stdin.
PollStdin ==
    /\ console.stdin # <<>>
    /\ LET done == on_input([console EXCEPT !.stdin = <<>>], console.stdin[1])
       IN ConsoleStep(IF done.processed THEN unpark(done.console)
                      ELSE done.console)

\* The wallet answers a request: a show request with its result or with
\* an Error notification, a payment with a change of the balance or with
\* an Error notification.
WalletAnswers ==
    /\ console.requests # <<>>
    /\ LET line == Head(console.requests)
       IN \E n \in {IF line \in InfoLines THEN InfoOf(line) ELSE "BalanceChanged",
                    "Error"} :
            ConsoleStep([console EXCEPT !.requests = Tail(@),
                                        !.wallet_events = Append(@, n)])

\* on_notification
on_notification(c, notification) ==
    IF notification \in {"BalanceInfo", "KeysInfo", "UnspentInfo"}
    THEN unpark(c)
    ELSE c

\* ConsoleService::poll, the loop over the notifications of the wallet.
PollWalletEvents ==
    /\ console.wallet_events # <<>>
    /\ ConsoleStep(on_notification([console EXCEPT !.wallet_events = Tail(@)],
                                   Head(console.wallet_events)))

ConsoleInit ==
    /\ ChainStart /\ NodeIdle /\ AccountStart /\ UnsealedIdle
    /\ builder = NoBuild
    /\ console = NewConsole

ConsoleNext ==
    \/ ReadLine
    \/ Park
    \/ PollStdin
    \/ WalletAnswers
    \/ PollWalletEvents

ConsoleSpec == ConsoleInit /\ [][ConsoleNext]_<<allVars, walletVars>>

\* The thread runs, the executor polls ConsoleService while a line or a
\* notification is queued, and the wallet answers every request.
ConsoleFairSpec ==
    /\ ConsoleSpec
    /\ WF_<<allVars, walletVars>>(Park)
    /\ WF_<<allVars, walletVars>>(PollStdin)
    /\ WF_<<allVars, walletVars>>(WalletAnswers)
    /\ WF_<<allVars, walletVars>>(PollWalletEvents)


\* ------------------------------------------------------------------------
\* The history of the chain, read from the persisted blocks: database[k] is
\* block k as it was received, with its inputs and all its outputs.
\* ------------------------------------------------------------------------
\* The outputs of a received block.
OutputsOf(b) == [i \in 1 .. Len(b.outputs) |-> b.outputs[i].output]
\* The outputs that the inputs of a received block name.
InputsOf(b) == [i \in 1 .. Len(b.inputs) |-> OutputOfHash(b.inputs[i])]

RECURSIVE CreatedUpTo(_)
CreatedUpTo(n) ==
    IF n = 0 THEN ECpInf
    ELSE ECpAdd(CreatedUpTo(n - 1), SumCommitments(OutputsOf(database[n - 1])))
RECURSIVE BurnedUpTo(_)
BurnedUpTo(n) ==
    IF n = 0 THEN ECpInf
    ELSE ECpAdd(BurnedUpTo(n - 1), SumCommitments(InputsOf(database[n - 1])))
RECURSIVE GammaUpTo(_)
GammaUpTo(n) ==
    IF n = 0 THEN 0 ELSE (GammaUpTo(n - 1) + blocks[n].gamma) % FrOrder
RECURSIVE AdjustmentUpTo(_)
AdjustmentUpTo(n) ==
    IF n = 0 THEN 0 ELSE AdjustmentUpTo(n - 1) + blocks[n].monetary_adjustment

\* The ids of the applied blocks.
AppliedIds == 0 .. (Len(blocks) - 1)
\* Block k produced an output with hash h / consumed the output with hash h.
Produces(k, h) == \E i \in 1 .. Len(database[k].outputs) : database[k].outputs[i].hash = h
Consumes(k, h) == \E i \in 1 .. Len(database[k].inputs) : database[k].inputs[i] = h
\* How many outputs with hash h the applied blocks produced / consumed.
ProducedCount(h) ==
    Cardinality({ki \in AppliedIds \X (1 .. MaxOutputs + 1) :
                    /\ ki[2] <= Len(database[ki[1]].outputs)
                    /\ database[ki[1]].outputs[ki[2]].hash = h})
ConsumedCount(h) ==
    Cardinality({ki \in AppliedIds \X (1 .. MaxInputs + 1) :
                    /\ ki[2] <= Len(database[ki[1]].inputs)
                    /\ database[ki[1]].inputs[ki[2]] = h})

\* The hashes of the outputs of the model and the hash of no output.
AllHashes == OutputHashes \cup {0}

\* A monetary block has just been applied.
MonetaryApplied == snapshot.taken
IsRegister(op) == op \in {"register_monetary_block", "register_key_block"}

\* ------------------------------------------------------------------------
\* C1: global monetary conservation.  In every state that a sequence of
\* applied blocks leads to, fee_a(monetary_adjustment) + burned - created
\* = gamma * G, and the four accumulators are the sums over the applied
\* blocks of the commitments of the outputs produced, of the commitments of
\* the inputs consumed, and of the gamma and monetary_adjustment fields.
\* ------------------------------------------------------------------------
C1_Conservation ==
    /\ ECpSub(ECpAdd(fee_a(monetary_adjustment), burned), created) = MulG(gamma)
    /\ created = CreatedUpTo(Len(blocks))
    /\ burned = BurnedUpTo(Len(blocks))
    /\ gamma = GammaUpTo(Len(blocks))
    /\ monetary_adjustment = AdjustmentUpTo(Len(blocks))

C1_Witness ==
    /\ Len(blocks) >= 2
    /\ result.kind = "Ok"
    /\ burned # ECpInf
    /\ created # burned
    /\ monetary_adjustment # 0
    /\ gamma # 0

\* ------------------------------------------------------------------------
\* C2: transactional apply.  A call of register_monetary_block or
\* register_key_block that returns a validation error has changed neither
\* the in-memory chain (blocks, block_by_hash, output_by_hash, escrow, the
\* accumulators, epoch, last_epoch_change) nor the persisted blocks.
\* ------------------------------------------------------------------------
C2_TransactionalApply ==
    [][result'.kind \in ValidationErrors => UNCHANGED <<database, chainVars>>]_vars

\* ------------------------------------------------------------------------
\* C3: no double-spend.
\* ------------------------------------------------------------------------
\* One call of register_monetary_block: the block is applied only if every
\* input hash is in the index before the call; when an input hash is not in
\* the index and the checks before the inputs (previous hash, block hash)
\* pass, the call returns MissingUTXO with the first such hash, and it
\* returns MissingUTXO in no other case; no input hash of an applied block
\* is in the index after the call.
C3_InputsSpentByCall ==
    call'.op = "register_monetary_block" =>
        LET b == call'.block
            missing == {i \in 1 .. Len(b.inputs) :
                           b.inputs[i] \notin DOMAIN output_by_hash}
        IN /\ result'.kind = "Ok" =>
                /\ missing = {}
                /\ \A i \in 1 .. Len(b.inputs) :
                      b.inputs[i] \notin DOMAIN output_by_hash'
           /\ (missing # {} /\ result'.kind \notin
                  {"PreviousHashMismatch", "BlockHashCollision"}) =>
                result' = Err("MissingUTXO", <<b.inputs[Min(missing)]>>)
           /\ result'.kind = "MissingUTXO" => missing # {}
\* No output hash is consumed by two applied blocks.
C3_ConsumedOnce ==
    \A h \in AllHashes : \A j, k \in AppliedIds :
        (j < k /\ Consumes(j, h)) => ~Consumes(k, h)
\* No output hash is consumed by two applied blocks, unless a block between
\* them has produced an output with that hash again.
C3_ConsumedOncePerProduction ==
    \A h \in AllHashes : \A j, k \in AppliedIds :
        (j < k /\ Consumes(j, h) /\ Consumes(k, h)) =>
            \E m \in AppliedIds : j < m /\ m < k /\ Produces(m, h)

\* C3 as claimed: a block is applied only if every input hash is in the
\* index before (MissingUTXO names the first missing one otherwise), no
\* input hash is in the index after, and hence no output hash is consumed
\* by two applied blocks.
C3_NoDoubleSpend_Claimed ==
    [][C3_InputsSpentByCall /\ C3_ConsumedOnce']_vars

\* C3 as amended: the same, but a hash may be consumed again after a later
\* block has produced an output with that hash again.
C3_NoDoubleSpend ==
    [][C3_InputsSpentByCall /\ C3_ConsumedOncePerProduction']_vars

\* A block has spent, for the second time, a hash that was produced twice.
C3_Witness ==
    /\ MonetaryApplied
    /\ \E h \in OutputHashes :
          /\ Consumes(Len(blocks) - 1, h)
          /\ \E j \in AppliedIds : j < Len(blocks) - 1 /\ Consumes(j, h)

\* ------------------------------------------------------------------------
\* C4: exactness of the UTXO index.
\* ------------------------------------------------------------------------
\* C4 as claimed: a hash is a key of the index iff an applied block produced
\* it and no applied block consumed it; output_by_hash returns None for a
\* hash that was never produced or that was consumed.
C4_IndexExact_Claimed ==
    ~panicked =>
        \A h \in AllHashes :
            /\ h \in DOMAIN output_by_hash <=>
                  (ProducedCount(h) > 0 /\ ConsumedCount(h) = 0)
            /\ (ProducedCount(h) = 0 \/ ConsumedCount(h) > 0) =>
                  ~OutputResolves(Chain, h)

\* C4 as amended: a hash is a key of the index iff the applied blocks
\* produced it more often than they consumed it, that is, iff it was not
\* consumed since it was produced last; output_by_hash returns None for
\* every other hash.
C4_IndexExact ==
    ~panicked =>
        \A h \in AllHashes :
            /\ h \in DOMAIN output_by_hash <=> ProducedCount(h) > ConsumedCount(h)
            /\ ProducedCount(h) <= ConsumedCount(h) => ~OutputResolves(Chain, h)
            /\ ProducedCount(h) <= ConsumedCount(h) + 1

\* An output that was spent has been produced again and is in the index.
C4_Witness ==
    /\ ~panicked
    /\ \E h \in OutputHashes :
          /\ h \in DOMAIN output_by_hash
          /\ ConsumedCount(h) > 0

\* ------------------------------------------------------------------------
\* C5: coherence of the UTXO index.  Every hash h of the index resolves,
\* through the block id and the Merkle path kept for it, to an output whose
\* hash is h; also for the outputs left in a block of which other outputs
\* were pruned.
\* ------------------------------------------------------------------------
C5_Coherence ==
    ~panicked =>
        \A h \in DOMAIN output_by_hash :
            /\ OutputResolves(Chain, h)
            /\ HashOutput(OutputByHash(Chain, h)) = h

\* A block holds a pruned leaf next to an output that is still unspent.
C5_Witness ==
    /\ ~panicked
    /\ \E k \in 1 .. Len(blocks) :
          /\ blocks[k].type = "MonetaryBlock"
          /\ \E p, q \in 1 .. Len(blocks[k].outputs) :
                /\ blocks[k].outputs[p].pruned
                /\ ~blocks[k].outputs[q].pruned
                /\ blocks[k].outputs[q].hash \in DOMAIN output_by_hash
                /\ output_by_hash[blocks[k].outputs[q].hash] =
                      [block_id |-> k - 1, path |-> q]

\* ------------------------------------------------------------------------
\* C6: escrow conservation.  For every validator the sum of the amounts of
\* its stake records in the escrow equals the sum of the amounts of its
\* stake outputs in the UTXO index, whatever current_timestamp the blocks
\* were applied with.
\* ------------------------------------------------------------------------
RECURSIVE SumUnspentStake(_, _)
SumUnspentStake(hashes, validator) ==
    IF hashes = {} THEN 0
    ELSE LET h == CHOOSE x \in hashes : TRUE
             o == OutputOfHash(h)
         IN (IF o.type = "StakeOutput" /\ o.validator = validator THEN o.amount ELSE 0)
            + SumUnspentStake(hashes \ {h}, validator)

C6_EscrowConservation ==
    ~panicked =>
        \A v \in Validators :
            EscrowBalance(escrow, v) = SumUnspentStake(DOMAIN output_by_hash, v)

\* ------------------------------------------------------------------------
\* C7: revert round-trip.  revert_micro right after a micro block b was
\* applied gives back the blocks, block_by_hash, the UTXO index, the escrow
\* and the accumulators that were there before b, and the RevertedMicroBlock
\* lists the hashes of the outputs of b as pruned_outputs and the outputs
\* that b consumed as recovered_inputs.
\* ------------------------------------------------------------------------
Range(f) == {f[i] : i \in DOMAIN f}

C7_RevertRoundTrip ==
    [][(call'.op = "revert_micro" /\ result'.kind = "Ok") =>
          /\ blocks' = snapshot.chain.blocks
          /\ block_by_hash' = snapshot.chain.block_by_hash
          /\ output_by_hash' = snapshot.chain.output_by_hash
          /\ escrow' = snapshot.chain.escrow
          /\ created' = snapshot.chain.created
          /\ burned' = snapshot.chain.burned
          /\ gamma' = snapshot.chain.gamma
          /\ monetary_adjustment' = snapshot.chain.monetary_adjustment
          /\ returned'.pruned_outputs =
                [i \in 1 .. Len(returned.outputs) |-> HashOutput(returned.outputs[i])]
          /\ Range(returned'.recovered_inputs) = Range(returned.pruned)
          /\ Len(returned'.recovered_inputs) = Len(returned.pruned)]_vars

\* ------------------------------------------------------------------------
\* C8: chain linkage.  On a chain that is not empty a block whose previous
\* field is not the hash of the last block is rejected with
\* PreviousHashMismatch(hash(last), block.previous) and is not appended; on
\* the empty chain the previous field is not checked.  So every applied
\* block but the first has the hash of the block before it as previous.
\* ------------------------------------------------------------------------
Linked ==
    \A i \in 2 .. Len(blocks) : blocks[i].previous = HashBlock(blocks[i - 1])

C8_ChainLinkage ==
    [][/\ IsRegister(call'.op) =>
            LET mismatch == /\ blocks # <<>>
                            /\ call'.block.previous # HashBlock(blocks[Len(blocks)])
            IN /\ mismatch =>
                    /\ result' = Err("PreviousHashMismatch",
                                     <<HashBlock(blocks[Len(blocks)]), call'.block.previous>>)
                    /\ blocks' = blocks
               /\ result'.kind = "PreviousHashMismatch" => mismatch
       /\ Linked']_vars

\* A chain whose first block carries another previous hash than the genesis
\* one has grown, and a block that does not link to it has been rejected.
C8_Witness ==
    /\ Len(blocks) >= 2
    /\ blocks[1].previous # GenesisPrevious
    /\ result.kind = "PreviousHashMismatch"

\* ------------------------------------------------------------------------
\* C9: epoch advance.  A key block is applied only with epoch = current
\* epoch + 1, and then epoch grows by one and last_epoch_change is the
\* position of the block; a monetary block changes none of epoch,
\* last_epoch_change, leader, facilitator, validators; a key block with
\* another epoch is not applied and changes no state.
\* ------------------------------------------------------------------------
C9_EpochAdvance ==
    [][/\ (call'.op = "register_key_block" /\ result'.kind = "Ok") =>
            /\ call'.block.epoch = epoch + 1
            /\ epoch' = epoch + 1
            /\ last_epoch_change' = Len(blocks)
            /\ blocks'[last_epoch_change' + 1] = call'.block
       /\ call'.op = "register_monetary_block" =>
            UNCHANGED <<epoch, last_epoch_change, leader, facilitator, validators>>
       /\ (call'.op = "register_key_block" /\ call'.block.epoch # epoch + 1) =>
            UNCHANGED <<database, chainVars>>]_vars

\* ------------------------------------------------------------------------
\* C10: output uniqueness in a block.  A block with an output whose hash is
\* a key of the UTXO index is rejected and leaves the index as it was; the
\* error is OutputHashCollision with the first such hash when the checks
\* before it (previous hash, block hash, inputs) pass.  A block that is
\* applied leaves every entry that was in the index, and is still in it, as
\* it was.
\* ------------------------------------------------------------------------
C10_OutputUniqueness ==
    [][call'.op = "register_monetary_block" =>
          LET b == call'.block
              colliding == {i \in 1 .. Len(b.outputs) :
                               b.outputs[i].hash \in DOMAIN output_by_hash}
          IN /\ colliding # {} =>
                  /\ result'.kind # "Ok"
                  /\ output_by_hash' = output_by_hash
                  /\ blocks' = blocks
             /\ (colliding # {} /\ result'.kind \notin
                    {"PreviousHashMismatch", "BlockHashCollision", "MissingUTXO"}) =>
                  result' = Err("OutputHashCollision", <<b.outputs[Min(colliding)].hash>>)
             /\ result'.kind = "OutputHashCollision" => colliding # {}
             /\ result'.kind = "Ok" =>
                  \A h \in DOMAIN output_by_hash \cap DOMAIN output_by_hash' :
                      output_by_hash'[h] = output_by_hash[h]]_vars

\* A block has been rejected for an output that is in the index.
C10_Witness ==
    /\ result.kind = "OutputHashCollision"
    /\ result.args[1] \in DOMAIN output_by_hash
    /\ call.block.previous = HashBlock(blocks[Len(blocks)])

\* ------------------------------------------------------------------------
\* C11: local block balance.  A block that passes the previous hash, block
\* hash, input and output checks is applied if and only if
\* fee_a(block.monetary_adjustment) + (the commitments of its inputs) - (the
\* commitments of its outputs) = block.gamma * G, and is rejected with
\* InvalidBlockBalance otherwise.
\* ------------------------------------------------------------------------
\* The block passes the checks that come before the balance check.
PassesChecks(b) ==
    /\ blocks # <<>> => b.previous = HashBlock(blocks[Len(blocks)])
    /\ HashBlock(b) \notin DOMAIN block_by_hash
    /\ \A i \in 1 .. Len(b.inputs) : b.inputs[i] \in DOMAIN output_by_hash
    /\ \A i \in 1 .. Len(b.outputs) : b.outputs[i].hash \notin DOMAIN output_by_hash

\* The balance equation of one block.
Balanced(b) ==
    ECpSub(ECpAdd(fee_a(b.monetary_adjustment), SumCommitments(InputsOf(b))),
           SumCommitments(OutputsOf(b))) = MulG(b.gamma)

C11_LocalBalance ==
    [][call'.op = "register_monetary_block" =>
          LET b == call'.block
          IN /\ PassesChecks(b) =>
                  /\ result'.kind = "Ok" <=> Balanced(b)
                  /\ ~Balanced(b) => result' = Err("InvalidBlockBalance", <<>>)
             /\ result'.kind = "InvalidBlockBalance" =>
                  PassesChecks(b) /\ ~Balanced(b)]_vars

\* ------------------------------------------------------------------------
\* C12: the global balance panic is unreachable.  No call of
\* register_monetary_block ends in the panic "Invalid global monetary
\* balance", also when the sum of the monetary adjustments is at the limits
\* of i64.
\* ------------------------------------------------------------------------
C12_GlobalBalancePanicUnreachable ==
    [][call'.op = "register_monetary_block" =>
          result' # Panic("Invalid global monetary balance")]_vars

\* ------------------------------------------------------------------------
\* C13: blocks_range(h, count) returns None if and only if h is not the
\* hash of an applied block; otherwise it returns min(count, number of
\* applied blocks after h) blocks: the applied blocks that follow h, in
\* chain order, never h itself and never a block that was not applied.
\* ------------------------------------------------------------------------
\* The hashes that blocks_range is asked for: the hashes of the applied
\* blocks, of the persisted blocks, of the block of the last call, and the
\* hash of no block.
StartingHashes ==
    {HashBlock(blocks[i]) : i \in 1 .. Len(blocks)}
      \cup {HashBlock(database[k]) : k \in DOMAIN database}
      \cup {HashBlock(call.block), <<0>>}

C13_BlocksRange ==
    ~panicked =>
        \A h \in StartingHashes : \A count \in 0 .. MaxCount :
            LET r == blocks_range(Chain, h, count)
                at == {i \in 1 .. Len(blocks) : HashBlock(blocks[i]) = h}
            IN /\ r = None <=> at = {}
               /\ at # {} =>
                    LET i == Min(at)
                    IN /\ Len(r.blocks) = Min({count, Len(blocks) - i})
                       /\ \A n \in 1 .. Len(r.blocks) :
                             /\ i + n <= Len(blocks)
                             /\ HashBlock(r.blocks[n]) = HashBlock(blocks[i + n])

\* ------------------------------------------------------------------------
\* validate_transaction: what the last call was made with.
\* ------------------------------------------------------------------------
Validated == tx_call.op = "validate_transaction"

\* The stake of the validator v that the outputs os hold.
RECURSIVE StakeOf(_, _)
StakeOf(os, v) ==
    IF os = <<>> THEN 0
    ELSE (IF Head(os).type = "StakeOutput" /\ Head(os).validator = v
          THEN Head(os).amount ELSE 0) + StakeOf(Tail(os), v)

TxInputs(tx) == [i \in 1 .. Len(tx.txins) |-> TxOutputOfHash(tx.txins[i])]

\* Input i of tx is not an unspent output of the chain or is claimed by a
\* transaction of the mempool.
InputFails(tx, mp, ch, i) ==
    \/ \A o \in ch.unspent : HashOutput(o) # tx.txins[i]
    \/ \E t \in mp : \E j \in 1 .. Len(t.txins) : t.txins[j] = tx.txins[i]

\* Output i of tx is produced by a transaction of the mempool or is an
\* unspent output of the chain.
OutputCollides(tx, mp, ch, i) ==
    \/ \E t \in mp : \E j \in 1 .. Len(t.txouts) :
          HashOutput(t.txouts[j]) = HashOutput(tx.txouts[i])
    \/ \E o \in ch.unspent : HashOutput(o) = HashOutput(tx.txouts[i])

\* The validators whose active stake the transaction would take away.
LockedBy(tx, ch) ==
    {v \in Validators :
        TotalBalance(ch, v) + StakeOf(tx.txouts, v) - StakeOf(TxInputs(tx), v)
            < ActiveBalance(ch, v)}

\* The six checks of the checklist: which of them the transaction violates.
ViolatedChecks(tx, mp, ch, f) ==
    [k \in 1 .. 6 |->
        CASE k = 1 -> \E t \in mp : HashTx(t) = HashTx(tx)
          [] k = 2 ->
               tx.fee < f.payment_fee * Cardinality({i \in 1 .. Len(tx.txouts) :
                                                       tx.txouts[i].type = "PaymentOutput"})
                        + f.stake_fee * Cardinality({i \in 1 .. Len(tx.txouts) :
                                                       tx.txouts[i].type = "StakeOutput"})
          [] k = 3 -> \E i \in 1 .. Len(tx.txins) : InputFails(tx, mp, ch, i)
          [] k = 4 -> \E i \in 1 .. Len(tx.txouts) : OutputCollides(tx, mp, ch, i)
          [] k = 5 -> tx_validate(tx, TxInputs(tx)) # Ok
          [] k = 6 -> LockedBy(tx, ch) # {}]

\* The errors that each check of the checklist answers with.
CheckErrors ==
    <<{"AlreadyExists"}, {"TooLowFee"}, {"MissingInput"}, {"OutputHashCollision"},
      {"InvalidSignature", "InvalidTransactionBalance"}, {"StakeIsLocked"}>>

LastViolated == ViolatedChecks(tx_call.tx, tx_call.before, node_chain, fees)

\* C14: validate_transaction answers with the error of the earliest check of
\* the checklist (already in mempool, fee, inputs, outputs, tx.validate,
\* staking balance) that the transaction violates, and with Ok only if the
\* transaction violates none of the six.
C14_CheckOrder ==
    Validated =>
        LET violated == {k \in 1 .. 6 : LastViolated[k]}
        IN IF violated = {} THEN tx_result = Ok
           ELSE tx_result.kind \in
                   CheckErrors[CHOOSE k \in violated : \A j \in violated : k <= j]

\* A transaction with a missing input and without a valid signature was
\* answered with MissingInput.
C14_Witness ==
    /\ Validated
    /\ ~LastViolated[1] /\ ~LastViolated[2]
    /\ LastViolated[3] /\ LastViolated[5]
    /\ tx_result.kind = "MissingInput"

\* The minimum fee of the last validated transaction: payment_fee for every
\* payment output plus stake_fee for every stake output.
LastMinFee ==
    fees.payment_fee * Cardinality({i \in 1 .. Len(tx_call.tx.txouts) :
                                      tx_call.tx.txouts[i].type = "PaymentOutput"})
    + fees.stake_fee * Cardinality({i \in 1 .. Len(tx_call.tx.txouts) :
                                      tx_call.tx.txouts[i].type = "StakeOutput"})

\* C15: a transaction that is not in the mempool is answered with
\* TooLowFee(tx_hash, min_fee, tx.fee) if and only if its fee is below
\* min_fee = payment_fee * payment outputs + stake_fee * stake outputs.
C15_MinimumFee ==
    (Validated /\ ~LastViolated[1]) =>
        /\ tx_call.tx.fee < LastMinFee =>
              tx_result = Err("TooLowFee",
                              <<HashTx(tx_call.tx), LastMinFee, tx_call.tx.fee>>)
        /\ tx_call.tx.fee >= LastMinFee => tx_result.kind # "TooLowFee"

\* A transaction with a payment output and a stake output, on a node that
\* takes a fee for both, was answered with TooLowFee naming the sum.
C15_Witness ==
    /\ Validated
    /\ ~LastViolated[1]
    /\ fees.stake_fee > 0
    /\ \E i \in 1 .. Len(tx_call.tx.txouts) : tx_call.tx.txouts[i].type = "StakeOutput"
    /\ \E i \in 1 .. Len(tx_call.tx.txouts) : tx_call.tx.txouts[i].type = "PaymentOutput"
    /\ tx_result.kind = "TooLowFee"
    /\ tx_result.args[2] = fees.payment_fee + fees.stake_fee

\* The inputs of the last validated transaction that fail the input check.
FailingInputs ==
    {i \in 1 .. Len(tx_call.tx.txins) :
        InputFails(tx_call.tx, tx_call.before, node_chain, i)}

\* C16: a transaction that passes the mempool and fee checks is answered
\* with MissingInput(hash(tx), input_hash) for its first input that is not
\* an unspent output of the chain or is claimed by a transaction of the
\* mempool, and with another answer if it has no such input; no two
\* transactions of the mempool spend the same input.
C16_InputAdmission ==
    /\ (Validated /\ ~LastViolated[1] /\ ~LastViolated[2]) =>
          IF FailingInputs = {} THEN tx_result.kind # "MissingInput"
          ELSE tx_result =
                 Err("MissingInput",
                     <<HashTx(tx_call.tx),
                       tx_call.tx.txins[CHOOSE i \in FailingInputs :
                                           \A j \in FailingInputs : i <= j]>>)
    /\ \A t1 \in mempool : \A t2 \in mempool \ {t1} :
          \A i \in 1 .. Len(t1.txins) : \A j \in 1 .. Len(t2.txins) :
             t1.txins[i] # t2.txins[j]

\* A transaction whose first input is free and whose second input is claimed
\* by a transaction of the mempool was answered with MissingInput naming the
\* second input.
C16_Witness ==
    /\ Validated
    /\ Len(tx_call.tx.txins) = 2
    /\ FailingInputs = {2}
    /\ \E o \in node_chain.unspent : HashOutput(o) = tx_call.tx.txins[2]
    /\ tx_call.before # {}
    /\ tx_result = Err("MissingInput", <<HashTx(tx_call.tx), tx_call.tx.txins[2]>>)

\* ------------------------------------------------------------------------
\* Mempool::prune followed by validate_transaction.
\* ------------------------------------------------------------------------
SharesInput(t1, t2) ==
    \E i \in 1 .. Len(t1.txins) : \E j \in 1 .. Len(t2.txins) : t1.txins[i] = t2.txins[j]

\* validate_transaction rejects tx with MissingInput when the mempool is mp.
RejectedMissingInput(tx, mp) ==
    \A r \in validate_transaction(tx, mp, node_chain, fees.payment_fee, fees.stake_fee) :
        r.kind = "MissingInput"

\* The last call pruned the mempool of tx_A = tx_call.tx, and tx is tx_A or
\* a transaction that shares an input with tx_A and was rejected with
\* MissingInput before the prune.
ReleasedByPrune(tx) ==
    /\ tx_call.op = "prune"
    /\ \/ tx = tx_call.tx
       \/ SharesInput(tx, tx_call.tx) /\ RejectedMissingInput(tx, tx_call.before)

\* The call after the prune validates a released transaction.
ValidatesReleased ==
    /\ tx_call'.op = "validate_transaction"
    /\ ReleasedByPrune(tx_call'.tx)

\* The released transaction violates no check of the checklist when tx_A is
\* taken out of the mempool.
OtherwiseValid(tx) ==
    \A k \in 1 .. 6 :
        ~ViolatedChecks(tx, tx_call.before \ {tx_call.tx}, node_chain, fees)[k]

\* C17 as claimed: after the mempool is pruned of the inputs and outputs of
\* tx_A, validate_transaction accepts tx_A and every tx_B that shares an
\* input with tx_A and was rejected with MissingInput.
C17_PruneReleases_Claimed ==
    [][ValidatesReleased => tx_result' = Ok]_allVars

\* C17: after the mempool is pruned of the inputs and outputs of tx_A,
\* validate_transaction no longer answers tx_A with AlreadyExists and no
\* longer answers tx_A or tx_B with MissingInput for an input of tx_A, and
\* it accepts tx_A or tx_B if the transaction violates no other check.
C17_PruneReleases ==
    [][ValidatesReleased =>
          /\ tx_call'.tx = tx_call.tx => tx_result'.kind # "AlreadyExists"
          /\ tx_result'.kind = "MissingInput" =>
                \A i \in 1 .. Len(tx_call.tx.txins) :
                    tx_result'.args[2] # tx_call.tx.txins[i]
          /\ OtherwiseValid(tx_call'.tx) => tx_result' = Ok]_allVars

\* The mempool was pruned of tx_A; a transaction that shares an input with
\* tx_A was rejected with MissingInput before and is accepted now, and so is
\* tx_A.
C17_Witness ==
    /\ tx_call.op = "prune"
    /\ validate_transaction(tx_call.tx, mempool, node_chain,
                            fees.payment_fee, fees.stake_fee) = {Ok}
    /\ \E tx \in TxCandidates :
          /\ tx # tx_call.tx
          /\ ReleasedByPrune(tx)
          /\ validate_transaction(tx, mempool, node_chain,
                                  fees.payment_fee, fees.stake_fee) = {Ok}

\* The outputs of the last validated transaction that collide.
CollidingTxOutputs ==
    {i \in 1 .. Len(tx_call.tx.txouts) :
        OutputCollides(tx_call.tx, tx_call.before, node_chain, i)}

\* C18: a transaction that passes the mempool, fee and input checks is
\* answered with OutputHashCollision(tx_hash, output_hash) for its first
\* output whose hash is produced by a transaction of the mempool or is an
\* unspent output of the chain, and with another answer if it has no such
\* output.
C18_OutputCollision ==
    (Validated /\ ~LastViolated[1] /\ ~LastViolated[2] /\ ~LastViolated[3]) =>
        IF CollidingTxOutputs = {} THEN tx_result.kind # "OutputHashCollision"
        ELSE tx_result =
               Err("OutputHashCollision",
                   <<HashTx(tx_call.tx),
                     HashOutput(tx_call.tx.txouts[CHOOSE i \in CollidingTxOutputs :
                                                     \A j \in CollidingTxOutputs : i <= j])>>)

\* A transaction was answered with OutputHashCollision for an output that no
\* transaction of the mempool produces and that a micro block added to the
\* chain after the mempool was last changed.
C18_Witness ==
    /\ Validated
    /\ tx_call.before # {}
    /\ tx_result.kind = "OutputHashCollision"
    /\ tx_result.args[2] \in fresh_outputs
    /\ ~contains_output(tx_call.before, tx_result.args[2])

\* ------------------------------------------------------------------------
\* Locked stakes.
\* ------------------------------------------------------------------------
\* The stake outputs of the chain that the last validated transaction spends
\* while they are active.
ActiveStakesSpent ==
    {o \in node_chain.unspent :
        /\ o.type = "StakeOutput"
        /\ \E i \in 1 .. Len(tx_call.tx.txins) : tx_call.tx.txins[i] = HashOutput(o)
        /\ node_chain.escrow[<<o.validator, HashOutput(o)>>].active_until_epoch
              > node_chain.epoch}

\* The last validated transaction passes the five checks made before the
\* staking-balance check.
ReachesStakingCheck == Validated /\ \A k \in 1 .. 5 : ~LastViolated[k]

\* The balance that the staking-balance check expects the validator v to
\* keep after the last validated transaction.
ExpectedBalance(v) ==
    TotalBalance(node_chain, v) + StakeOf(tx_call.tx.txouts, v)
        - StakeOf(TxInputs(tx_call.tx), v)

\* The last validated transaction has one input that is a stake, and no
\* output that is a stake.
SpendsOneStake ==
    /\ Cardinality({i \in 1 .. Len(tx_call.tx.txins) :
                      TxOutputOfHash(tx_call.tx.txins[i]).type = "StakeOutput"}) = 1
    /\ \A i \in 1 .. Len(tx_call.tx.txouts) : tx_call.tx.txouts[i].type # "StakeOutput"

RefusedWhileSealed ==
    /\ acct_call.event.kind = "Request"
    /\ acct_call.before.service = "Sealed"
    /\ acct_call.event.type \notin {"Unseal", "AccountInfo", "Disable"}

\* C20: a sealed account answers every request other than unseal,
\* account_info and disable with Error{"Account is sealed"} and the account
\* is as it was before the request: no transaction logged or sent, no input
\* locked, the service still sealed.
C20_SealedRefuses ==
    RefusedWhileSealed =>
        /\ acct_call.response = ErrorResponse("Account is sealed")
        /\ account = acct_call.before

\* An account that made a payment and was sealed again refused a payment
\* that its unlocked outputs could have made.
C20_Witness ==
    /\ RefusedWhileSealed
    /\ acct_call.event.type = "Payment"
    /\ acct_call.before.outgoing > 0
    /\ acct_call.event.amount <= Cardinality(AccountUnspent \ acct_call.before.locked_inputs)
    /\ acct_call.response = ErrorResponse("Account is sealed")

\* ------------------------------------------------------------------------
\* The claims about the unsealed account.
\* ------------------------------------------------------------------------
\* The step of poll that handles a notification of the given type.
NotifiedStep(type) ==
    /\ ChainNotified
    /\ Head(node_stream.rx).type = type

\* The transaction h of the log claims an input or produces an output of
\* the block.
Intersects(h, block) ==
    \/ OutgoingTx(h).txins \cap block.inputs # {}
    \/ OutgoingTx(h).txouts \cap block.outputs # {}

LoggedTxs == DOMAIN unsealed.database.status

\* C21: when the account handles MicroBlockPrepared(block) of an epoch and
\* an offset, every pending transaction of its log that claims an input or
\* produces an output of the block becomes Prepared{epoch, offset} if all
\* its outputs are in the block and Conflicted{epoch, Some(offset)}
\* otherwise, and every other transaction keeps its status.
C21_PreparedStatuses ==
    [][NotifiedStep("MicroBlockPrepared") =>
         LET block == Head(node_stream.rx).block
         IN \A h \in LoggedTxs :
              unsealed'.database.status[h] =
                 IF is_pending(unsealed.database.status[h]) /\ Intersects(h, block)
                 THEN IF OutgoingTx(h).txouts \subseteq block.outputs
                      THEN StatusPrepared(block.epoch, block.offset)
                      ELSE StatusConflicted(block.epoch, SomeOffset(block.offset))
                 ELSE unsealed.database.status[h]]_<<allVars, walletVars>>

C21_Witness ==
    /\ unsealed_call.op = "ChainNotified"
    /\ unsealed_call.arg.type = "MicroBlockPrepared"
    /\ \E h \in LoggedTxs, g \in LoggedTxs :
         /\ unsealed.database.status[h] =
               StatusConflicted(unsealed_call.arg.block.epoch,
                                SomeOffset(unsealed_call.arg.block.offset))
         /\ unsealed.database.status[g].kind = "Created"

\* The notifications that the last step sent to the subscribers.
Notified(msg) == \E i \in DOMAIN unsealed_call.notified : unsealed_call.notified[i] = msg

\* C22: when the account handles MicroBlockReverted of a block with offset
\* k, exactly the transactions of its log whose status is Prepared at
\* offset k of the epoch of the block are reset to Created{}; every other
\* transaction (prepared at another offset, committed, rejected,
\* conflicted) keeps its status.
C22_RevertedStatuses ==
    [][NotifiedStep("MicroBlockReverted") =>
         LET block == Head(node_stream.rx).block
         IN \A h \in LoggedTxs :
              unsealed'.database.status[h] =
                 IF unsealed.database.status[h] = StatusPrepared(block.epoch, block.offset)
                 THEN StatusCreated
                 ELSE unsealed.database.status[h]]_<<allVars, walletVars>>

C22_Witness ==
    /\ unsealed_call.op = "ChainNotified"
    /\ unsealed_call.arg.type = "MicroBlockReverted"
    /\ \E h \in LoggedTxs, g \in LoggedTxs :
         /\ Notified([kind |-> "TransactionStatus", tx_hash |-> h, status |-> StatusCreated])
         /\ unsealed.database.status[h] = StatusCreated
         /\ unsealed.database.status[g].kind = "Prepared"
         /\ unsealed.database.status[g].offset # unsealed_call.arg.block.offset

\* C23: when the account handles MacroBlockCommitted of epoch e, the status
\* of a transaction of its log changes only from Created, Accepted,
\* Prepared or Rollback to Committed{e} or Conflicted{e, None}, and the
\* flag of the balance of the epoch is false afterwards.
C23_CommittedStatuses ==
    [][NotifiedStep("MacroBlockCommitted") =>
         LET block == Head(node_stream.rx).block
         IN /\ \A h \in LoggedTxs :
                 \/ unsealed'.database.status[h] = unsealed.database.status[h]
                 \/ /\ unsealed.database.status[h].kind
                          \in {"Created", "Accepted", "Prepared", "Rollback"}
                    /\ unsealed'.database.status[h]
                          \in {StatusCommitted(block.epoch),
                               StatusConflicted(block.epoch, NoOffset)}
            /\ DOMAIN unsealed'.database.status = LoggedTxs
            /\ ~unsealed'.database.current_epoch_balance_changed]_<<allVars, walletVars>>

C23_Witness ==
    /\ unsealed_call.op = "ChainNotified"
    /\ unsealed_call.arg.type = "MacroBlockCommitted"
    /\ \E h \in LoggedTxs, g \in LoggedTxs, o \in OwnedOutputs :
         /\ unsealed.database.status[h] = StatusCommitted(unsealed_call.arg.block.epoch)
         /\ unsealed.database.status[g] =
               StatusConflicted(unsealed_call.arg.block.epoch, NoOffset)
         /\ Notified([kind |-> "Received", output |-> o])
         /\ ~unsealed.database.current_epoch_balance_changed

\* The place of a status on the way Created, Accepted, Prepared, Committed.
StatusRank(status) ==
    CASE status.kind = "Created" -> 0
      [] status.kind = "Accepted" -> 1
      [] status.kind = "Prepared" -> 2
      [] status.kind = "Committed" -> 3
      [] OTHER -> 4

\* The status changes as the lifecycle allows: forward on the way to
\* Committed, from a status that is not final to Rejected or Conflicted,
\* and back to Created when the micro block that prepared the transaction
\* is reverted.
LifecycleStep(h) ==
    LET old == unsealed.database.status[h]
        new == unsealed'.database.status[h]
    IN \/ new = old
       \/ /\ old.kind \in {"Created", "Accepted", "Prepared"}
          /\ new.kind \in {"Accepted", "Prepared", "Committed"}
          /\ StatusRank(old) < StatusRank(new)
       \/ /\ old.kind \in {"Created", "Accepted", "Prepared"}
          /\ new.kind \in {"Rejected", "Conflicted"}
       \/ /\ new = StatusCreated
          /\ NotifiedStep("MicroBlockReverted")
          /\ old = StatusPrepared(Head(node_stream.rx).block.epoch,
                                  Head(node_stream.rx).block.offset)

\* C24: under any interleaving of the replies of the node, the resend
\* ticks and the notifications of the chain, the status of every logged
\* transaction moves only forward along Created, Accepted, Prepared,
\* Committed, returns to Created only when the micro block that prepared it
\* is reverted, and never changes once it is Rejected, Conflicted or
\* Committed; in particular a reply of the node does not move a Prepared or
\* Committed transaction back to Accepted.
C24_StatusLifecycle ==
    [][\A h \in LoggedTxs : LifecycleStep(h)]_<<allVars, walletVars>>

\* C25: on every tick of the resend timer, every logged transaction whose
\* status is Created or Accepted is sent to the node again, each of them
\* when there are several, and the tick changes the status of none.
C25_Resubmission ==
    [][ResendTick =>
         /\ \A h \in LoggedTxs :
              unsealed.database.status[h].kind \in {"Created", "Accepted"}
                 => \E i \in DOMAIN unsealed_call'.sent : unsealed_call'.sent[i] = h
         /\ unsealed'.database.status = unsealed.database.status]_<<allVars, walletVars>>

\* The inputs that the logged transactions locked: not those that the
\* Snowball session locked after the lock of a logged transaction was
\* released.
LockedBySubmitted ==
    {h \in DOMAIN unsealed.database.pending_payments :
        /\ \E t \in LoggedTxs : h \in OutgoingTx(t).txins
        /\ ~(unsealed.snowball.some /\ is_my_input(unsealed.snowball, h))}

\* C26: an input locked by a logged transaction stays locked, with the time
\* of its lock, through every step of the service but a tick of the timer
\* check_pending_utxos that finds lock time + PENDING_UTXO_TIME <= now; that
\* tick removes the lock and sends BalanceChanged, and a tick never removes
\* a younger lock. While it is locked, an unspent input counts in the
\* current balance and not in the available balance.
C26_PendingUtxoAging ==
    [][\A h \in LockedBySubmitted :
         LET lock == unsealed.database.pending_payments[h]
             locks == unsealed'.database.pending_payments
             aged == lock.time + PENDING_UTXO_TIME <= clock
         IN /\ IF CheckTick /\ aged
               THEN /\ h \notin DOMAIN locks
                    /\ \E i \in DOMAIN unsealed_call'.notified :
                          unsealed_call'.notified[i] =
                             [kind |-> "BalanceChanged",
                              balance |-> balance(unsealed'.database)]
               ELSE h \in DOMAIN locks /\ locks[h] = lock
            /\ h \in unsealed.database.unspent =>
                  balance(unsealed.database).current
                     - balance(unsealed.database).available >= OutputAmount(h)]_<<allVars, walletVars>>

C26_Witness ==
    /\ unsealed_call.op = "CheckTick"
    /\ Notified([kind |-> "BalanceChanged", balance |-> balance(unsealed.database)])
    /\ \E h \in LockedBySubmitted, g \in OwnedOutputs :
         /\ unsealed.database.pending_payments[h].time + PENDING_UTXO_TIME > clock
         /\ g \in unsealed.database.unspent
         /\ g \notin DOMAIN unsealed.database.pending_payments
         /\ \E t \in LoggedTxs : g \in OutgoingTx(t).txins

\* The outputs that a notification creates and the inputs that it prunes,
\* as its arm of poll passes them to on_outputs_changed.
CreatedBy(notification) ==
    IF notification.type = "MicroBlockReverted" THEN notification.recovered_inputs
    ELSE notification.block.outputs
PrunedBy(notification) ==
    IF notification.type = "MicroBlockReverted" THEN notification.pruned_outputs
    ELSE notification.block.inputs

\* C27: for every notification of the chain the account first puts the
\* owned outputs of the block into its unspent outputs and then removes the
\* owned inputs: every Received is sent before every Spent; an owned output
\* that the block both creates and spends is notified as Received, then as
\* Spent, and is not unspent afterwards; no assertion fails.
C27_CreateBeforeRemove ==
    [][ChainNotified =>
         LET n == Head(node_stream.rx)
             sent == unsealed_call'.notified
         IN /\ ~unsealed'.panicked
            /\ \A i \in DOMAIN sent, j \in DOMAIN sent :
                  sent[i].kind = "Received" /\ sent[j].kind = "Spent" => i < j
            /\ \A o \in (OwnedOutputs \cap CreatedBy(n)) \cap PrunedBy(n) :
                  /\ \E i \in DOMAIN sent, j \in DOMAIN sent :
                        /\ i < j
                        /\ sent[i] = [kind |-> "Received", output |-> o]
                        /\ sent[j] = [kind |-> "Spent", output |-> o]
                  /\ o \notin unsealed'.database.unspent]_<<allVars, walletVars>>

C27_Witness ==
    /\ unsealed_call.op = "ChainNotified"
    /\ ~unsealed.panicked
    /\ \E o \in (OwnedOutputs \cap CreatedBy(unsealed_call.arg))
                   \cap PrunedBy(unsealed_call.arg) :
         /\ Notified([kind |-> "Received", output |-> o])
         /\ Notified([kind |-> "Spent", output |-> o])
         /\ o \notin unsealed.database.unspent

\* The balances that a step notified, in the order sent.
BalancesNotified(step) ==
    SelectSeq(step.notified, LAMBDA msg : msg.kind = "BalanceChanged")

\* C28: when the account handles MicroBlockPrepared(b) and next
\* MicroBlockReverted(b), with the outputs of b as pruned outputs and the
\* inputs of b as recovered inputs, its unspent outputs are those before b,
\* the balance notified after the revert, if b changed the balance, is the
\* balance before b, and every transaction that b set to Prepared has the
\* status Created.
C28_RevertRoundTrip ==
    [][(/\ NotifiedStep("MicroBlockReverted")
        /\ unsealed_call.op = "ChainNotified"
        /\ unsealed_call.arg.type = "MicroBlockPrepared"
        /\ unsealed_call.arg.block = Head(node_stream.rx).block)
       =>
         LET prior == unsealed_call.prior
             b == Head(node_stream.rx).block
         IN /\ ~unsealed'.panicked
            /\ unsealed'.database.unspent = prior.unspent
            /\ balance(unsealed'.database) = prior.balance
            /\ BalancesNotified(unsealed_call) =
                  IF balance(unsealed.database) = prior.balance THEN <<>>
                  ELSE <<[kind |-> "BalanceChanged",
                          balance |-> balance(unsealed.database)]>>
            /\ BalancesNotified(unsealed_call') =
                  IF balance(unsealed.database) = prior.balance THEN <<>>
                  ELSE <<[kind |-> "BalanceChanged", balance |-> prior.balance]>>
            /\ \A h \in LoggedTxs :
                  (/\ unsealed.database.status[h] = StatusPrepared(b.epoch, b.offset)
                   /\ prior.status[h] # unsealed.database.status[h])
                  => unsealed'.database.status[h] = StatusCreated]_<<allVars, walletVars>>

C28_Witness ==
    /\ unsealed_call.op = "ChainNotified"
    /\ unsealed_call.arg.type = "MicroBlockReverted"
    /\ unsealed_call.prior.reverted
    /\ unsealed_call.arg.block.inputs \cap OwnedOutputs # {}
    /\ unsealed_call.arg.block.outputs \cap OwnedOutputs # {}
    /\ unsealed_call.arg.block.inputs \subseteq unsealed.database.unspent
    /\ BalancesNotified(unsealed_call) # <<>>
    /\ \E h \in LoggedTxs :
         /\ OutgoingTx(h).txins = unsealed_call.arg.block.inputs
         /\ Notified([kind |-> "TransactionStatus", tx_hash |-> h,
                      status |-> StatusCreated])

\* The tick of check_pending_utxos finds an outdated lock on an input of
\* the Snowball session.
SessionTimedOut ==
    /\ CheckTick
    /\ unsealed.snowball.some
    /\ \E h \in DOMAIN unsealed.database.pending_payments :
         /\ is_my_input(unsealed.snowball, h)
         /\ unsealed.database.pending_payments[h].time + PENDING_UTXO_TIME <= clock

\* C29: a tick of check_pending_utxos that finds an outdated lock on an
\* input of the Snowball session ends the session, answers the request
\* with one error "Snowball timed out" and nothing else, notifies
\* SnowballStatus Failed, and leaves no input of the session locked.
C29_SnowballTimeout ==
    [][SessionTimedOut =>
         /\ ~unsealed'.snowball.some
         /\ unsealed_call'.responses = <<ErrorResponse("Snowball timed out")>>
         /\ \E i \in DOMAIN unsealed_call'.notified :
               unsealed_call'.notified[i] = [kind |-> "SnowballStatus", state |-> "Failed"]
         /\ \A h \in unsealed.snowball.inputs :
               h \notin DOMAIN unsealed'.database.pending_payments]_<<allVars, walletVars>>

C29_Witness ==
    /\ unsealed_call.op = "CheckTick"
    /\ unsealed_call.responses = <<ErrorResponse("Snowball timed out")>>
    /\ Notified([kind |-> "SnowballStatus", state |-> "Failed"])
    /\ ~unsealed.snowball.some
    /\ {1, 2} \subseteq unsealed.database.unspent
    /\ {1, 2} \cap DOMAIN unsealed.database.pending_payments = {}
    /\ Notified([kind |-> "BalanceChanged", balance |-> balance(unsealed.database)])
    /\ balance(unsealed.database).available = balance(unsealed.database).current

\* C30: the subscription of the unsealed account asks for the epoch of its
\* database as opened and the offset 0, and the notifications are handled
\* in the order of their arrival: a notification leaves the queue only as
\* its oldest one, in the step that handles it whole, no other step of the
\* service takes or handles a notification, and the node only appends.
C30_NotificationOrdering ==
    /\ [](/\ unsealed.chain_notifications.offset = 0
          /\ unsealed.chain_notifications.state = "Pending"
                => /\ unsealed.chain_notifications.epoch = unsealed.database.epoch
                   /\ node_stream.rx = <<>>)
    /\ [][LET rx == node_stream.rx
              outcome == HandleChainNotification(StartRun(unsealed), Head(rx))
          IN /\ unsealed'.chain_notifications.epoch = unsealed.chain_notifications.epoch
             /\ (unsealed'.chain_notifications.state # unsealed.chain_notifications.state)
                   => /\ unsealed'.chain_notifications.state = "Active"
                      /\ node_stream'.epoch = unsealed.database.epoch
                      /\ node_stream'.offset = 0
             /\ \/ /\ node_stream'.rx = rx
                   /\ unsealed_call' = unsealed_call \/ unsealed_call'.op # "ChainNotified"
                \/ /\ Len(node_stream'.rx) = Len(rx) + 1
                   /\ SubSeq(node_stream'.rx, 1, Len(rx)) = rx
                   /\ unsealed' = unsealed
                   /\ unsealed_call' = unsealed_call
                \/ /\ rx # <<>>
                   /\ node_stream'.rx = Tail(rx)
                   /\ unsealed.chain_notifications.state = "Active"
                   /\ unsealed_call'.op = "ChainNotified"
                   /\ unsealed_call'.arg = Head(rx)
                   /\ unsealed' = outcome.service
                   /\ unsealed_call'.notified = outcome.notified]_<<allVars, walletVars>>

C30_Witness ==
    /\ unsealed_call.op = "ChainNotified"
    /\ unsealed_call.arg.type = "MicroBlockPrepared"
    /\ unsealed_call.arg.block.epoch = unsealed.chain_notifications.epoch
    /\ unsealed_call.arg.block.offset = 1
    /\ Len(node_stream.rx) = 2
    /\ node_stream.rx[1].type = "MicroBlockReverted"
    /\ node_stream.rx[1].block = unsealed_call.arg.block
    /\ node_stream.rx[2].type # "MicroBlockReverted"
    /\ LoggedTxs # {}

\* ------------------------------------------------------------------------
\* The staking deltas.
\* ------------------------------------------------------------------------
\* The stake that the last validated transaction creates for the validator
\* v minus the stake of v that it spends.
StakeDelta(v) == StakeOf(tx_call.tx.txouts, v) - StakeOf(TxInputs(tx_call.tx), v)

\* The last validated transaction spends an active stake of the validator v.
SpendsActiveStakeOf(v) == \E o \in ActiveStakesSpent : o.validator = v

\* The last validated transaction stakes nothing for v and stakes for
\* another validator.
RestakedElsewhere(v) ==
    /\ StakeOf(tx_call.tx.txouts, v) = 0
    /\ \E w \in Validators \ {v} : StakeOf(tx_call.tx.txouts, w) > 0

EventHandled == events # <<>> /\ handled' = handled + 1

\* The step handles the request of the type t as the service s.
RequestHandled(s, t) ==
    /\ EventHandled
    /\ account.service = s
    /\ Head(events).kind = "Request"
    /\ Head(events).type = t

\* C32: a sealed account becomes unsealed only by the request Unseal with
\* the password of the account, answered with Unsealed; Unseal with another
\* password is answered with an error and leaves the account as it is. An
\* unsealed account becomes sealed only by the request Seal, answered with
\* Sealed, and answers Unseal with the error "Already unsealed" without a
\* change. The service changes only in a step that handles one event, the
\* events behind that event stay on the channel in their order, and the
\* event handled next is handled by the service changed to.
C32_SealStateMachine ==
    [][LET e == Head(events)
           response == acct_call'.response
       IN /\ account'.service # account.service =>
                /\ EventHandled
                /\ e.kind = "Request"
                /\ <<account.service, account'.service>> \in
                      {<<"Sealed", "Unsealed">>, <<"Unsealed", "Sealed">>,
                       <<"Sealed", "Terminated">>, <<"Unsealed", "Terminated">>}
                /\ account'.service = "Unsealed" =>
                      /\ e.type = "Unseal" /\ e.password = AccountPassword
                      /\ response = Response("Unsealed")
                /\ account'.service = "Sealed" =>
                      e.type = "Seal" /\ response = Response("Sealed")
                /\ account'.service = "Terminated" => e.type = "Disable"
          /\ RequestHandled("Sealed", "Unseal") =>
                IF e.password = AccountPassword
                THEN account'.service = "Unsealed"
                ELSE account' = account /\ response.kind = "Error"
          /\ RequestHandled("Unsealed", "Seal") => account'.service = "Sealed"
          /\ RequestHandled("Unsealed", "Unseal") =>
                account' = account /\ response = ErrorResponse("Already unsealed")
          /\ EventHandled =>
                /\ events' = Tail(events)
                /\ acct_call'.event = e
                /\ acct_call'.before = account
          /\ ~EventHandled =>
                \/ events' = events
                \/ Len(events') = Len(events) + 1 /\ SubSeq(events', 1, Len(events)) = events
          /\ (EventHandled /\ account.service = "Sealed" /\ e.kind = "Request"
                /\ e.type \notin {"Unseal", "AccountInfo", "Disable"}) =>
                   response = ErrorResponse("Account is sealed")]_<<allVars, walletVars>>

\* The unsealed account was sealed by Seal with a payment waiting behind it.
C32_Witness ==
    /\ acct_call.event.type = "Seal"
    /\ acct_call.before.service = "Unsealed"
    /\ acct_call.response = Response("Sealed")
    /\ account.service = "Sealed"
    /\ events # <<>>
    /\ events[1].type = "Payment"

\* ------------------------------------------------------------------------
\* The transaction builders.
\* ------------------------------------------------------------------------
\* The amount that the builder called refuses: not positive, and for a
\* stake not above ESCROW_FEE + PAYMENT_FEE.
RefusedAmount ==
    IF builder.op = "staking"
    THEN builder.amount <= builder.fees.escrow + builder.fees.payment
    ELSE builder.amount <= 0

\* The output asked for, and the second output for a change.
RequestedOutput ==
    CASE builder.op = "payment" -> BuiltPayment("recipient", builder.amount)
      [] builder.op = "staking" -> BuiltEscrow("sender", builder.amount)
      [] builder.op = "unstaking" -> BuiltPayment("sender", builder.amount)
ChangeOutput(change) ==
    IF builder.op = "unstaking" THEN BuiltEscrow("sender", change)
    ELSE BuiltPayment("sender", change)

\* C33: a builder called with an amount that it refuses returns
\* ZeroOrNegativeAmount whatever the unspent outputs are, and with any other
\* amount never; a transaction built has the output asked for first, and a
\* second output, the change, if and only if the change that find_utxo
\* returned is above 0.
C33_BuilderAmounts ==
    (builder.op \in {"payment", "staking", "unstaking"} /\ builder.called) =>
        LET r == builder.result
        IN /\ RefusedAmount <=> (~r.ok /\ r.error = "ZeroOrNegativeAmount")
           /\ r.ok =>
                 /\ r.tx.txouts[1] = RequestedOutput
                 /\ Len(r.tx.txouts) = IF r.change > 0 THEN 2 ELSE 1
                 /\ r.change > 0 => r.tx.txouts[2] = ChangeOutput(r.change)
                 /\ r.tx.txins \subseteq builder.unspent
                 /\ SumOutputAmounts(r.tx.txins)
                       = builder.amount + r.change + r.tx.fee

\* A stake of the amount ESCROW_FEE + PAYMENT_FEE, above 0, was refused
\* with outputs at hand that pay for it.
C33_Witness ==
    /\ builder.op = "staking"
    /\ builder.called
    /\ builder.amount > 0
    /\ builder.amount = builder.fees.escrow + builder.fees.payment
    /\ SumOutputAmounts(builder.unspent) > builder.amount + builder.fees.escrow
    /\ builder.result = BuildError("ZeroOrNegativeAmount")

\* ------------------------------------------------------------------------
\* C34: the commit part of register_monetary_block never reaches an
\* unreachable!(): a call with a block that passes the checks of the
\* previous hash, the block hash, the inputs and the outputs and that
\* balances, a block that names one input twice or holds one output twice
\* included, does not end in the panic of an unreachable branch.
\* ------------------------------------------------------------------------
C34_CommitNoUnreachable ==
    [][(/\ call'.op = "register_monetary_block"
        /\ PassesChecks(call'.block)
        /\ Balanced(call'.block))
          => result' # Panic("unreachable")]_vars

\* ------------------------------------------------------------------------
\* C35: the unsealed account awaits the reply of the node to at most one
\* transaction.  A step of the service sends at most one transaction to the
\* node, and only when no reply is awaited; the reply then awaited is the
\* one to the transaction sent.  While a reply is awaited nothing is sent,
\* the awaited reply is not replaced, and a payment is answered with an
\* error.
\* ------------------------------------------------------------------------
C35_OneInFlight ==
    [][(ResendTick \/ PaymentRequest) =>
         LET awaited == unsealed.transaction_response
             sent == unsealed_call'.sent
         IN /\ Len(sent) <= 1
            /\ sent # <<>> =>
                  unsealed'.transaction_response =
                     [some |-> TRUE, tx_hash |-> sent[1], response |-> NotReady]
            /\ awaited.some =>
                  /\ sent = <<>>
                  /\ unsealed'.transaction_response = awaited
                  /\ PaymentRequest =>
                        unsealed_call'.responses \in
                           {<<ErrorResponse("NoEnoughToPay")>>,
                            <<ErrorResponse("old transaction still on the way to mempool")>>}
            /\ ~awaited.some /\ sent = <<>> =>
                  ~unsealed'.transaction_response.some]_<<allVars, walletVars>>

\* A payment was refused while the reply to another transaction is awaited.
C35_Witness ==
    /\ unsealed_call.op = "Payment"
    /\ unsealed_call.responses =
          <<ErrorResponse("old transaction still on the way to mempool")>>
    /\ unsealed_call.sent = <<>>
    /\ unsealed.transaction_response.some
    /\ unsealed.transaction_response.tx_hash # unsealed_call.arg

\* ------------------------------------------------------------------------
\* C36: a payment that is answered with an Error response (not enough to
\* pay, or an old transaction still on the way to the mempool) leaves the
\* locked inputs, the log of the outgoing transactions and the statuses of
\* the pending transactions of the account as they were before the request.
\* ------------------------------------------------------------------------
C36_FailedRequestUnchanged ==
    [][(/\ PaymentRequest
        /\ \E i \in DOMAIN unsealed_call'.responses :
              unsealed_call'.responses[i].kind = "Error")
          => /\ unsealed'.database.pending_payments = unsealed.database.pending_payments
             /\ unsealed'.database.outgoing = unsealed.database.outgoing
             /\ unsealed'.database.status = unsealed.database.status]_<<allVars, walletVars>>

\* ------------------------------------------------------------------------
\* C37: every request that is in the channel of events of the account is
\* answered: while the service keeps being polled, the request that is the
\* n-th event to be handled is eventually handled and a response is sent to
\* its sender, whatever requests (Seal and Disable included) come with it.
\* ------------------------------------------------------------------------
C37_EveryRequestAnswered ==
    \A n \in 0 .. MaxHandled - 1 :
        (/\ handled = n
         /\ account.service \in {"Sealed", "Unsealed"}
         /\ events # <<>>
         /\ Head(events).kind = "Request")
           ~> (handled = n + 1 /\ acct_call.response # NoResponse)

\* ------------------------------------------------------------------------
\* C38: cloak_all, whatever the fee and the available public payment
\* outputs are (none included), returns NoEnoughToPayPublicly or builds a
\* transaction with at least one input and at most max_inputs_in_tx inputs,
\* the largest outputs, and one payment output of the amount
\* sum of the inputs - fee >= 0; it does not panic.
\* ------------------------------------------------------------------------
C38_CloakAllNoPanic ==
    (builder.op = "cloak_all" /\ builder.called) =>
        LET r == builder.result
        IN \/ r = BuildError("NoEnoughToPayPublicly")
           \/ /\ r.ok
              /\ r.tx.txins # {}
              /\ r.tx.txins \subseteq builder.available
              /\ Cardinality(r.tx.txins) <= builder.max_inputs
              /\ \A i \in r.tx.txins, o \in builder.available \ r.tx.txins :
                    OutputAmount(i) >= OutputAmount(o)
              /\ Len(r.tx.txouts) = 1
              /\ r.tx.txouts[1].type = "PaymentOutput"
              /\ r.tx.txouts[1].amount = SumOutputAmounts(r.tx.txins) - builder.fee
              /\ r.tx.txouts[1].amount >= 0

\* ------------------------------------------------------------------------
\* C39: an owned output is never inserted twice.  Whenever the account
\* handles a notification of the chain, the owned outputs that the block
\* creates (but those that the account holds and the block spends as well)
\* are not in its unspent outputs, and the assertion of on_output_created
\* does not fail; also after the account was sealed and unsealed and has
\* subscribed again from the epoch of its database and the offset 0.
\* ------------------------------------------------------------------------
C39_NoDoubleInsert ==
    [][ChainNotified =>
         /\ (CreatedBy(Head(node_stream.rx)) \cap OwnedOutputs)
               \cap unsealed.database.unspent = {}
         /\ ~unsealed'.panicked]_<<allVars, walletVars>>

\* ------------------------------------------------------------------------
\* C40: at most one line is on its way from the readline thread to
\* ConsoleService, the channel is never full when the thread sends, and
\* after every line typed the thread is unparked: a thread that waits
\* for its line to be processed eventually reads again, for the three show
\* lines whatever the wallet answers.
\* ------------------------------------------------------------------------
C40_ConsoleHandOff ==
    /\ [](Len(console.stdin) <= 1 /\ console.thread # "panicked")
    /\ (console.thread \in {"sent", "parked"}) ~> (console.thread = "reading")

====
